---- MODULE Spec2Model ----
(***************************************************************************)
(* State-machine model of the OMS core engine (s2ungeda/cexoms, core/).    *)
(*                                                                         *)
(*   SpecRing  : RingBuffer<T> with one producer and one consumer thread,  *)
(*               one step per atomic access (ring_buffer.h).               *)
(*   SpecOM    : OrderManager with one thread submitting and cancelling    *)
(*               and the dispatch worker, started once.                    *)
(*   SpecOMLife: OrderManager with one submitting thread, the control      *)
(*               thread (Start/Stop in any order) and the worker.          *)
(*   SpecOMRate: the rate limiter of SubmitOrder, one submitting thread.   *)
(*   SpecOMConc: OrderManager with two threads calling SubmitOrder on the  *)
(*               same venue while the dispatch worker runs.                *)
(*   SpecRisk  : RiskEngine (risk_engine.cpp), single caller.              *)
(*   SpecOMUpd : OrderManager with one thread submitting, cancelling and   *)
(*               calling UpdateOrder, and the dispatch worker.             *)
(*   SpecOMFifo: OrderManager with one thread submitting on two venues     *)
(*               through rings of three usable slots, and the worker.      *)
(*   SpecRiskCount: two threads inside updateOrderCount at once.           *)
(*   SpecArb   : ArbitrageDetector (arbitrage_detector.cpp), one thread    *)
(*                updating feeds, detecting and fetching opportunities.    *)
(*   SpecMM    : MarketMaker (market_maker.cpp), single caller.            *)
(*   SpecOMFair: as SpecOMFifo with two submissions and weak fairness on   *)
(*               the worker's steps.                                       *)
(*   SpecArbStale: a detection pass in two steps while feeds are updated.  *)
(*   SpecArbConc: two threads inside updatePriceFeed at once.              *)
(*   SpecArbFull: one thread inside updatePriceFeed on a table one symbol  *)
(*               and one venue short of its capacity.                      *)
(*   SpecArbNames: one thread inside updatePriceFeed with venue names of   *)
(*               1 and of 16 characters.                                   *)
(*   SpecMMConc: generateQuotes, updateMarketData and updatePosition run   *)
(*               side by side on a started MarketMaker.                    *)
(*   SpecMMCap : generateQuotes in steps, single caller, with up to eleven *)
(*               quote levels.                                             *)
(*   SpecChecker: RiskChecker of the market maker: updatePnL, shouldStop.  *)
(*   SpecOMIdx : as SpecOMUpd with UpdateOrder naming any venue.           *)
(*   SpecOMGate: two threads calling SubmitOrder, each on its own venue.   *)
(*   SpecArbOver: one thread inside updatePriceFeed on a full symbol table *)
(*               while the detection thread runs a pass.                   *)
(*   SpecRiskConc: two threads inside updatePosition, each on its own      *)
(*               symbol.                                                   *)
(*   SpecRiskTrip: one thread calling updatePosition for one symbol.       *)
(*   SpecRingSize: SpecRing with a third thread calling size().            *)
(*                                                                         *)
(* Atomics are modelled as sequentially consistent; every load, store and  *)
(* read-modify-write of shared state is its own step.  Doubles are         *)
(* modelled as exact numbers (integers, or fractions where the code        *)
(* divides); NaN and infinities are outside the model.                     *)
(***************************************************************************)
EXTENDS Integers, Sequences, FiniteSets, TLC

(***************************************************************************)
(* Bounds of the model.                                                    *)
(***************************************************************************)
\* largest capacity requested from the RingBuffer constructor
MaxCapacity == 4
\* number of push/pop calls started on the stand-alone ring
MaxRingOps == 8
\* SubmitOrder / CancelOrder calls started in SpecOM
MaxSubmits == 2
\* SubmitOrder calls started in SpecOMFifo
MaxFifoSubmits == 3
\* SubmitOrder calls started in SpecOMFair
MaxFairSubmits == 2
\* update_price_feed calls made by each thread in SpecArbConc
MaxConcUpdates == 2
\* SubmitOrder calls started in SpecOMLife
MaxLifeSubmits == 2
\* SubmitOrder calls started in SpecOMRate
MaxRateCalls == 5
\* largest max_orders_per_second configured in SpecOMRate
MaxRate == 3
\* SubmitOrder calls started (by both threads together) in SpecOMConc
MaxConcCalls == 2
\* Start / Stop calls made by the control thread
MaxLifecycle == 3
\* last reading of the clock, in ticks
MaxTime == 2
\* update_position calls made on the risk engine
MaxFills == 2
\* updateOrderCount calls made by the concurrent callers
MaxCountCalls == 4
\* update_position calls made by the concurrent callers
MaxConcFills == 4
\* UpdateOrder calls made
MaxUpdates == 2
\* check_order calls counted by the risk engine
MaxChecks == 1
\* update_price_feed calls made on the arbitrage detector
MaxFeedUpdates == 2
\* detection passes made on a running arbitrage detector
MaxPasses == 1
\* last reading of the arbitrage detector's clock, in ticks
MaxArbTime == 2
\* capacity requested for the opportunity ring (OPPORTUNITY_BUFFER_SIZE, 1024
\* in the source)
MaxOpportunityBuffer == 4

\* calls made on the market maker engine (start, stop and the clock apart)
MaxMMCalls == 4

\* fills recorded with RiskChecker::updatePnL
MaxPnLUpdates == 12

\* the market maker's clock runs from 0 to MaxMMTime ticks
MaxMMTime == 1

\* requested capacity of the outbound quote ring (QUOTE_BUFFER_SIZE, 1024 in the source)
MaxQuoteBuffer == 8

(***************************************************************************)
(* State.                                                                  *)
(***************************************************************************)
VARIABLES
    ringReq,    \* the capacity passed to the constructor
    ring,       \* the RingBuffer<int> object
    rProd,      \* the producer thread: its place in push() and its locals
    rCons,      \* the consumer thread: its place in pop() and its locals
    ringLog,    \* history: the completed push/pop calls with their results
    rObs,       \* a thread calling size(): its place in the call and its locals
    obsLast     \* history: the size() call just completed

ringObs == <<rObs, obsLast>>

ringVars == <<ringReq, ring, rProd, rCons, ringLog, ringObs>>

VARIABLES
    config_,              \* Config: ring_buffer_size, max_orders_per_second
    order_queues_,        \* venue -> RingBuffer<Order>
    orders_,              \* OrderId -> Order (the shared_ptr targets)
    exchange_orders_,     \* venue -> sequence of OrderId
    running_,             \* atomic<bool>
    next_order_id_,       \* atomic<OrderId>
    orders_this_second_,  \* atomic<uint32_t>
    last_rate_check_,     \* steady_clock::time_point (not atomic)
    stats_,               \* orders_processed, orders_rejected
    processing_thread_,   \* std::thread: joinable or not
    now,                  \* the clock
    prod,                 \* thread -> its place in SubmitOrder and its locals
    worker,               \* the dispatch worker: its place in ProcessingLoop
    ctl,                  \* the thread calling Start / Stop
    terminated,           \* std::terminate was called
    omLog,                \* history: completed SubmitOrder calls
    popLog,               \* history: orders popped by the worker
    admitLog,             \* history: IDs assigned by ProcessOrder
    ctlLog,               \* history: Start / Stop calls
    updLog                \* history: completed UpdateOrder calls

omVars == <<config_, order_queues_, orders_, exchange_orders_, running_,
            next_order_id_, orders_this_second_, last_rate_check_, stats_,
            processing_thread_, now, prod, worker, ctl, terminated,
            omLog, popLog, admitLog, ctlLog, updLog>>

VARIABLES
    risk_config_,    \* RiskConfig
    risk_running_,   \* RiskEngine::running_
    positions_,      \* slot index -> PositionInfo (the slots some symbol hashes to)
    daily_pnl_,      \* atomic<double>
    open_orders_,    \* atomic<int>
    total_checks_,   \* atomic<size_t>
    riskFills,       \* history: update_position calls made
    riskLast,        \* history: the check_order call just made and its result
    counting,        \* thread -> its place in updateOrderCount and its argument
    countLog,        \* history: the deltas applied by the concurrent callers
    filling,         \* thread -> its place in updatePosition and its locals
    fillLog          \* history: the stepwise update_position calls and their realized PnL

riskVars == <<risk_config_, risk_running_, positions_, daily_pnl_, open_orders_,
              total_checks_, riskFills, riskLast, counting, countLog, filling, fillLog>>

VARIABLES
    arb_config_,          \* ArbitrageConfig
    arb_running_,         \* atomic<bool>
    symbol_index_,        \* symbol name -> index into symbol_prices_
    symbol_prices_,       \* index -> SymbolPrices (the entries in use)
    symbol_count_,        \* atomic<size_t>
    opportunity_buffer_,  \* RingBuffer<ArbitrageOpportunity>
    detected_count_,      \* atomic<uint64_t>
    processed_prices_,    \* atomic<uint64_t>
    arbNow,               \* the monotonic clock, in ticks
    arbPasses,            \* history: detection passes made while running
    arbLast,              \* history: the last call and what it emitted
    arbDet,               \* the detection thread: its place in detectOpportunities
    arbUpd,               \* per thread: its place in updatePriceFeed
    arbBefore             \* history: the feed table as a noted call found it

arbVars == <<arb_config_, arb_running_, symbol_index_, symbol_prices_, symbol_count_,
             opportunity_buffer_, detected_count_, processed_prices_, arbNow,
             arbPasses, arbLast, arbDet, arbUpd, arbBefore>>

VARIABLES
    mm_config_,           \* MarketMakerConfig
    market_state_,        \* MarketSnapshot
    inventory_state_,     \* InventorySnapshot
    market_version_,      \* atomic<uint64_t>
    inventory_version_,   \* atomic<uint64_t>
    price_history_,       \* index -> mid price (the entries written; the rest hold 0.0)
    price_index_,         \* atomic<size_t>
    quote_buffer_,        \* RingBuffer<MMQuote>
    current_quotes_,      \* the entries of the array written so far, slot 0 first
    active_quotes_,       \* atomic<size_t>
    quotes_generated_,    \* atomic<uint64_t>
    market_updates_,      \* atomic<uint64_t>
    mm_running_,          \* atomic<bool>
    mmNow,                \* the clock of getCurrentTimeNanos, in ticks
    mmCalls,              \* history: calls made on the engine
    mmLast,               \* history: the last call and what it emitted
    mmGen,                \* the quoting thread: its place in generateQuotes
    mmUpd,                \* the market-data thread: its place in updateMarketData
    daily_loss_,          \* RiskChecker: the sum of the PnL recorded
    consecutive_losses_,  \* RiskChecker: losing fills in a row
    rcLog,                \* history: the PnL of the fills recorded, in order
    rcLast                \* history: the last call on the RiskChecker

engineVars == <<mm_config_, market_state_, inventory_state_, market_version_,
                inventory_version_, price_history_, price_index_, quote_buffer_,
                current_quotes_, active_quotes_, quotes_generated_, market_updates_,
                mm_running_, mmNow, mmCalls, mmLast, mmGen, mmUpd>>

checkerVars == <<daily_loss_, consecutive_losses_, rcLog, rcLast>>

mmVars == <<engineVars, checkerVars>>

stratVars == <<arbVars, mmVars>>

vars == <<ringVars, omVars, riskVars, stratVars>>

(***************************************************************************)
(* size_t bit arithmetic (values stay far below 2^31 in this model).       *)
(***************************************************************************)
RECURSIVE BitAnd(_, _)
BitAnd(a, b) ==
    IF a = 0 \/ b = 0 THEN 0
    ELSE (a % 2) * (b % 2) + 2 * BitAnd(a \div 2, b \div 2)

RECURSIVE BitOr(_, _)
BitOr(a, b) ==
    IF a = 0 THEN b
    ELSE IF b = 0 THEN a
    ELSE (IF a % 2 = 1 \/ b % 2 = 1 THEN 1 ELSE 0) + 2 * BitOr(a \div 2, b \div 2)

RECURSIVE ShiftR(_, _)
ShiftR(n, k) == IF k = 0 \/ n = 0 THEN n ELSE ShiftR(n \div 2, k - 1)

\* n |= n >> k
OrShift(n, k) == BitOr(n, ShiftR(n, k))

(***************************************************************************)
(* RingBuffer<T>  (include/ring_buffer.h)                                  *)
(***************************************************************************)
\* a plausible slip: the closing n++ forgotten, giving 2^k - 1
next_power_of_two_NoInc(n) ==
    OrShift(OrShift(OrShift(OrShift(OrShift(OrShift(n - 1, 1), 2), 4), 8), 16), 32)

\* n >= 1 (n = 0 would wrap around in size_t)
next_power_of_two(n) ==
    OrShift(OrShift(OrShift(OrShift(OrShift(OrShift(n - 1, 1), 2), 4), 8), 16), 32) + 1

\* the constructor: value-initialised slots, head = tail = 0
RingBuffer(capacity, zero) ==
    [ head      |-> 0,
      tail      |-> 0,
      buffer_   |-> [i \in 0 .. (next_power_of_two(capacity) - 1) |-> zero],
      capacity_ |-> next_power_of_two(capacity),
      mask_     |-> next_power_of_two(capacity) - 1 ]

\* a plausible slip: the index advanced without the wrap-around mask
NextIndex_NoMask(r, i) == i + 1

\* (i + 1) & mask_
NextIndex(r, i) == BitAnd(i + 1, r.mask_)

\* a plausible slip: "full" tested as head == tail
PushFull_NoReserve(r, next_head) == r.head = r.tail

\* push: next_head == tail.load(acquire)
PushFull(r, next_head) == next_head = r.tail

\* push: buffer_[current_head] = item
PushWrite(r, current_head, item) ==
    [r EXCEPT !.buffer_ = [@ EXCEPT ![current_head] = item]]

\* push: head.store(next_head, release)
PushStore(r, next_head) == [r EXCEPT !.head = next_head]

\* a plausible slip: pop that always reports an empty ring
PopEmpty_Always(r, current_tail) == TRUE

\* pop: current_tail == head.load(acquire)
PopEmpty(r, current_tail) == current_tail = r.head

\* a plausible slip: the slot after the tail is read
PopRead_Next(r, current_tail) == r.buffer_[NextIndex(r, current_tail)]

\* a plausible slip: the newest slot is read instead of the oldest
PopRead_Newest(r, current_tail) == r.buffer_[BitAnd((r.head - 1) + r.capacity_, r.mask_)]

\* pop: item = buffer_[current_tail]
PopRead(r, current_tail) == r.buffer_[current_tail]

\* pop: tail.store((current_tail + 1) & mask_, release)
PopStore(r, current_tail) == [r EXCEPT !.tail = NextIndex(r, current_tail)]

\* size(): (head - tail) & mask_, the subtraction taken in size_t
RingSize(r) == BitAnd((r.head - r.tail) + r.capacity_, r.mask_)

\* empty(): head == tail
RingEmpty(r) == r.head = r.tail

ProdIdle == [pc |-> "idle", current_head |-> 0, next_head |-> 0, item |-> 0]
ConsIdle == [pc |-> "idle", current_tail |-> 0, item |-> 0]
ObsIdle == [pc |-> "idle", head |-> 0, start |-> 0]
NoSize == [op |-> "none"]

RingInit ==
    /\ ringReq \in 1 .. MaxCapacity
    /\ ring = RingBuffer(ringReq, 0)
    /\ rProd = ProdIdle
    /\ rCons = ConsIdle
    /\ ringLog = <<>>
    /\ rObs = ObsIdle
    /\ obsLast = NoSize

\* calls started so far (completed ones are in the log)
RingOpsStarted ==
    Len(ringLog) + (IF rProd.pc = "idle" THEN 0 ELSE 1)
                 + (IF rCons.pc = "idle" THEN 0 ELSE 1)

\* items handed to push so far; the next item is this plus one
PushCalls ==
    Len(SelectSeq(ringLog, LAMBDA e : e.op = "push"))
        + (IF rProd.pc = "idle" THEN 0 ELSE 1)

\* push(), line 49-50: load own head, compute next_head
RingPushBegin ==
    /\ rProd.pc = "idle"
    /\ RingOpsStarted < MaxRingOps
    /\ rProd' = [pc |-> "check",
                 current_head |-> ring.head,
                 next_head |-> NextIndex(ring, ring.head),
                 item |-> PushCalls + 1]
    /\ UNCHANGED <<ringReq, ring, rCons, ringLog, ringObs, omVars, riskVars, stratVars>>

\* push(), line 52-54: load tail, return false when full
RingPushCheck ==
    /\ rProd.pc = "check"
    /\ IF PushFull(ring, rProd.next_head)
       THEN /\ rProd' = ProdIdle
            /\ ringLog' = Append(ringLog, [op |-> "push", item |-> rProd.item, ok |-> FALSE])
       ELSE /\ rProd' = [rProd EXCEPT !.pc = "write"]
            /\ UNCHANGED ringLog
    /\ UNCHANGED <<ringReq, ring, rCons, ringObs, omVars, riskVars, stratVars>>

\* push(), line 56: write the slot
RingPushWrite ==
    /\ rProd.pc = "write"
    /\ ring' = PushWrite(ring, rProd.current_head, rProd.item)
    /\ rProd' = [rProd EXCEPT !.pc = "store"]
    /\ UNCHANGED <<ringReq, rCons, ringLog, ringObs, omVars, riskVars, stratVars>>

\* push(), line 57-58: publish head, return true
RingPushStore ==
    /\ rProd.pc = "store"
    /\ ring' = PushStore(ring, rProd.next_head)
    /\ rProd' = ProdIdle
    /\ ringLog' = Append(ringLog, [op |-> "push", item |-> rProd.item, ok |-> TRUE])
    /\ UNCHANGED <<ringReq, rCons, ringObs, omVars, riskVars, stratVars>>

\* pop(), line 62: load own tail
RingPopBegin ==
    /\ rCons.pc = "idle"
    /\ RingOpsStarted < MaxRingOps
    /\ rCons' = [pc |-> "check", current_tail |-> ring.tail, item |-> 0]
    /\ UNCHANGED <<ringReq, ring, rProd, ringLog, ringObs, omVars, riskVars, stratVars>>

\* pop(), line 64-66: load head, return false when empty
RingPopCheck ==
    /\ rCons.pc = "check"
    /\ IF PopEmpty(ring, rCons.current_tail)
       THEN /\ rCons' = ConsIdle
            /\ ringLog' = Append(ringLog, [op |-> "pop", item |-> 0, ok |-> FALSE])
       ELSE /\ rCons' = [rCons EXCEPT !.pc = "read"]
            /\ UNCHANGED ringLog
    /\ UNCHANGED <<ringReq, ring, rProd, ringObs, omVars, riskVars, stratVars>>

\* pop(), line 68: read the slot
RingPopRead ==
    /\ rCons.pc = "read"
    /\ rCons' = [rCons EXCEPT !.pc = "store", !.item = PopRead(ring, rCons.current_tail)]
    /\ UNCHANGED <<ringReq, ring, rProd, ringLog, ringObs, omVars, riskVars, stratVars>>

\* pop(), line 69-70: publish tail, return true
RingPopStore ==
    /\ rCons.pc = "store"
    /\ ring' = PopStore(ring, rCons.current_tail)
    /\ rCons' = ConsIdle
    /\ ringLog' = Append(ringLog, [op |-> "pop", item |-> rCons.item, ok |-> TRUE])
    /\ UNCHANGED <<ringReq, rProd, ringObs, omVars, riskVars, stratVars>>

\* the number of items queued after the calls of the log: pushes that
\* stored the head less pops that stored the tail
Queued(log) ==
    Len(SelectSeq(log, LAMBDA e : e.op = "push" /\ e.ok))
        - Len(SelectSeq(log, LAMBDA e : e.op = "pop" /\ e.ok))

\* size(), line 74: load head
RingSizeHead ==
    /\ rObs.pc = "idle"
    /\ rObs' = [pc |-> "tail", head |-> ring.head, start |-> Len(ringLog)]
    /\ obsLast' = NoSize
    /\ UNCHANGED <<ringReq, ring, rProd, rCons, ringLog, omVars, riskVars, stratVars>>

\* size(), line 75-76: load tail, return (head - tail) & mask_; during is
\* history: the numbers of items queued at the instants of the call
RingSizeTail ==
    /\ rObs.pc = "tail"
    /\ obsLast' = [op |-> "size",
                   result |-> RingSize([ring EXCEPT !.head = rObs.head]),
                   during |-> { Queued(SubSeq(ringLog, 1, n)) : n \in rObs.start .. Len(ringLog) }]
    /\ rObs' = ObsIdle
    /\ UNCHANGED <<ringReq, ring, rProd, rCons, ringLog, omVars, riskVars, stratVars>>

\* producer and consumer with a third thread calling size()
RingSizeNext ==
    \/ RingPushBegin
    \/ RingPushCheck
    \/ RingPushWrite
    \/ RingPushStore
    \/ RingPopBegin
    \/ RingPopCheck
    \/ RingPopRead
    \/ RingPopStore
    \/ RingSizeHead
    \/ RingSizeTail

RingNext ==
    \/ RingPushBegin
    \/ RingPushCheck
    \/ RingPushWrite
    \/ RingPushStore
    \/ RingPopBegin
    \/ RingPopCheck
    \/ RingPopRead
    \/ RingPopStore


(***************************************************************************)
(* OrderManager  (engine/order_manager.cpp, include/order_manager.h)       *)
(*                                                                         *)
(* Of struct Order the model keeps the fields the manager reads or writes  *)
(* and the payload (side, price, quantity, executed_quantity); symbol,     *)
(* type and time_in_force are carried along untouched like the payload.    *)
(* client_order_id identifies a submission.  The latency statistics        *)
(* (wall-clock measurements) are left out.                                 *)
(***************************************************************************)
\* ticks of the clock in std::chrono::seconds(1)
TicksPerSecond == 1

Venues == {"BINANCE_SPOT", "BINANCE_FUTURES"}

\* the order in which ProcessingLoop walks order_queues_ (an unordered_map:
\* some fixed order)
VenueOrder == <<"BINANCE_SPOT", "BINANCE_FUTURES">>

Threads == {"T1", "T2"}

\* a value-initialised Order, as make_unique<Order[]> leaves the slots
ZeroOrder ==
    [ id |-> 0, client_order_id |-> 0, exchange |-> "BINANCE_SPOT",
      side |-> "BUY", price |-> 0, quantity |-> 0, executed_quantity |-> 0,
      status |-> "NEW", created_at |-> 0, updated_at |-> 0 ]

\* the members copied first / last by Order's member-wise assignment
OrderHeadFields == {"id", "client_order_id", "exchange"}
OrderTailFields ==
    {"side", "price", "quantity", "executed_quantity", "status", "created_at", "updated_at"}

\* an order as a client hands it to SubmitOrder (no ID yet)
NewOrder(tag, venue, side, price, quantity) ==
    [ZeroOrder EXCEPT !.client_order_id = tag, !.exchange = venue, !.side = side,
                      !.price = price, !.quantity = quantity]

\* CancelOrder, line 48-51: the record routed through SubmitOrder
CancelRecord(tag, order_id, exchange) ==
    [ZeroOrder EXCEPT !.client_order_id = tag, !.id = order_id,
                      !.exchange = exchange, !.status = "CANCELED"]

\* payloads the clients submit
Payloads == { [side |-> "BUY", price |-> 10, quantity |-> 1],
              [side |-> "SELL", price |-> 20, quantity |-> 2] }

CallerIdle ==
    [pc |-> "idle", order |-> ZeroOrder, now |-> 0, reset |-> FALSE,
     current_head |-> 0, next_head |-> 0]

\* popped is history: the venues a pop succeeded on in the current pass
WorkerNone ==
    [pc |-> "none", i |-> 1, processed |-> FALSE, current_tail |-> 0, order |-> ZeroOrder,
     popped |-> {}]

\* order_manager.h, line 84: next_order_id_{1}
FirstOrderId == 1

\* OrderManager::OrderManager; the clock reads 1 at construction
OMInit(ring_buffer_size, max_orders_per_second) ==
    /\ config_ = [ring_buffer_size |-> ring_buffer_size,
                  max_orders_per_second |-> max_orders_per_second]
    /\ order_queues_ = [v \in Venues |-> RingBuffer(ring_buffer_size, ZeroOrder)]
    /\ orders_ = << >>
    /\ exchange_orders_ = [v \in Venues |-> << >>]
    /\ running_ = FALSE
    /\ next_order_id_ = FirstOrderId
    /\ orders_this_second_ = 0
    /\ last_rate_check_ = 1
    /\ stats_ = [orders_processed |-> 0, orders_rejected |-> 0]
    /\ processing_thread_ = [joinable |-> FALSE]
    /\ now = 1
    /\ prod = [t \in Threads |-> CallerIdle]
    /\ worker = WorkerNone
    /\ ctl = "idle"
    /\ terminated = FALSE
    /\ omLog = << >>
    /\ popLog = << >>
    /\ admitLog = << >>
    /\ ctlLog = << >>
    /\ updLog = << >>

\* SubmitOrder / CancelOrder calls started so far
CallsStarted ==
    Len(omLog) + Cardinality({t \in Threads : prod[t].pc # "idle"})

\* the clock advances
Tick ==
    /\ now < MaxTime
    /\ now' = now + 1
    /\ UNCHANGED <<ringVars, riskVars, stratVars, config_, order_queues_, orders_, exchange_orders_, running_,
                   next_order_id_, orders_this_second_, last_rate_check_, stats_,
                   processing_thread_, prod, worker, ctl, terminated,
                   omLog, popLog, admitLog, ctlLog, updLog>>

\* what a step of a submitting thread leaves alone besides the fields named
CallerFrame ==
    UNCHANGED <<ringVars, riskVars, stratVars, config_, orders_, exchange_orders_, running_, next_order_id_,
                processing_thread_, now, worker, ctl, terminated,
                popLog, admitLog, ctlLog, updLog>>

\* a plausible slip: the window compared with > instead of >=
WindowElapsed_Strict(t_now, t_last) == t_now - t_last > TicksPerSecond

\* SubmitOrder, line 27: now - last_rate_check_ >= seconds(1)
WindowElapsed(t_now, t_last) == t_now - t_last >= TicksPerSecond

\* a plausible slip: the counter compared with > instead of >=
OverRate_OffByOne(old_count, max_orders_per_second) == old_count > max_orders_per_second

\* SubmitOrder, line 32: orders_this_second_.fetch_add(1) >= max_orders_per_second
OverRate(old_count, max_orders_per_second) == old_count >= max_orders_per_second

\* SubmitOrder, line 26-27: read the clock, test the window
SubmitOrder(t, order) ==
    /\ prod[t].pc = "idle"
    /\ ~terminated
    /\ prod' = [prod EXCEPT ![t] =
                   [CallerIdle EXCEPT !.order = order, !.now = now,
                        !.pc = IF WindowElapsed(now, last_rate_check_)
                               THEN "reset" ELSE "gate"]]
    /\ UNCHANGED <<order_queues_, orders_this_second_, last_rate_check_, stats_, omLog>>
    /\ CallerFrame

\* CancelOrder, line 47-54
CancelOrder(t, order_id, exchange) ==
    SubmitOrder(t, CancelRecord(CallsStarted + 1, order_id, exchange))

\* SubmitOrder, line 28: orders_this_second_.store(0)
SubmitRateReset(t) ==
    /\ prod[t].pc = "reset"
    /\ orders_this_second_' = 0
    /\ prod' = [prod EXCEPT ![t].pc = "stamp", ![t].reset = TRUE]
    /\ UNCHANGED <<order_queues_, last_rate_check_, stats_, omLog>>
    /\ CallerFrame

\* SubmitOrder, line 29: last_rate_check_ = now
SubmitRateStamp(t) ==
    /\ prod[t].pc = "stamp"
    /\ last_rate_check_' = prod[t].now
    /\ prod' = [prod EXCEPT ![t].pc = "gate"]
    /\ UNCHANGED <<order_queues_, orders_this_second_, stats_, omLog>>
    /\ CallerFrame

\* SubmitOrder, line 32: the rate gate (one fetch_add)
SubmitGate(t) ==
    /\ prod[t].pc = "gate"
    /\ orders_this_second_' = orders_this_second_ + 1
    /\ prod' = [prod EXCEPT ![t].pc =
                   IF OverRate(orders_this_second_, config_.max_orders_per_second)
                   THEN "reject" ELSE "push"]
    /\ UNCHANGED <<order_queues_, last_rate_check_, stats_, omLog>>
    /\ CallerFrame

\* a plausible slip: a rejection that is not counted
CountRejected_Dropped(s) == s

\* stats_.orders_rejected.fetch_add(1)
CountRejected(s) == [s EXCEPT !.orders_rejected = @ + 1]

\* SubmitOrder, line 33-34 and 40-41: count the rejection, return false
SubmitReject(t) ==
    /\ prod[t].pc = "reject"
    /\ stats_' = CountRejected(stats_)
    /\ omLog' = Append(omLog, [thread |-> t, order |-> prod[t].order, ok |-> FALSE,
                               reset |-> prod[t].reset])
    /\ prod' = [prod EXCEPT ![t] = CallerIdle]
    /\ UNCHANGED <<order_queues_, orders_this_second_, last_rate_check_>>
    /\ CallerFrame

\* SubmitOrder, line 38-39 into push, line 49-50: load head
SubmitPushBegin(t) ==
    /\ prod[t].pc = "push"
    /\ LET q == order_queues_[prod[t].order.exchange] IN
       prod' = [prod EXCEPT ![t].pc = "check",
                            ![t].current_head = q.head,
                            ![t].next_head = NextIndex(q, q.head)]
    /\ UNCHANGED <<order_queues_, orders_this_second_, last_rate_check_, stats_, omLog>>
    /\ CallerFrame

\* push, line 52-54: load tail, test for full
SubmitPushCheck(t) ==
    /\ prod[t].pc = "check"
    /\ prod' = [prod EXCEPT ![t].pc =
                   IF PushFull(order_queues_[prod[t].order.exchange], prod[t].next_head)
                   THEN "reject" ELSE "write"]
    /\ UNCHANGED <<order_queues_, orders_this_second_, last_rate_check_, stats_, omLog>>
    /\ CallerFrame

\* the slot after the members in `fields` have been assigned from `order`
AssignFields(slot, order, fields) ==
    [f \in DOMAIN slot |-> IF f \in fields THEN order[f] ELSE slot[f]]

\* push, line 56: buffer_[current_head] = item, first members
SubmitPushWrite(t) ==
    /\ prod[t].pc = "write"
    /\ LET v == prod[t].order.exchange
           q == order_queues_[v]
           h == prod[t].current_head
       IN order_queues_' = [order_queues_ EXCEPT ![v] =
              PushWrite(q, h, AssignFields(q.buffer_[h], prod[t].order, OrderHeadFields))]
    /\ prod' = [prod EXCEPT ![t].pc = "write2"]
    /\ UNCHANGED <<orders_this_second_, last_rate_check_, stats_, omLog>>
    /\ CallerFrame

\* push, line 56: buffer_[current_head] = item, remaining members
SubmitPushWriteRest(t) ==
    /\ prod[t].pc = "write2"
    /\ LET v == prod[t].order.exchange
           q == order_queues_[v]
           h == prod[t].current_head
       IN order_queues_' = [order_queues_ EXCEPT ![v] =
              PushWrite(q, h, AssignFields(q.buffer_[h], prod[t].order, OrderTailFields))]
    /\ prod' = [prod EXCEPT ![t].pc = "store"]
    /\ UNCHANGED <<orders_this_second_, last_rate_check_, stats_, omLog>>
    /\ CallerFrame

\* push, line 57-58, and SubmitOrder, line 44: publish head, return true
SubmitPushStore(t) ==
    /\ prod[t].pc = "store"
    /\ LET v == prod[t].order.exchange IN
       order_queues_' = [order_queues_ EXCEPT ![v] = PushStore(@, prod[t].next_head)]
    /\ omLog' = Append(omLog, [thread |-> t, order |-> prod[t].order, ok |-> TRUE,
                               reset |-> prod[t].reset])
    /\ prod' = [prod EXCEPT ![t] = CallerIdle]
    /\ UNCHANGED <<orders_this_second_, last_rate_check_, stats_>>
    /\ CallerFrame

\* the steps inside a SubmitOrder call of thread t
SubmitSteps(t) ==
    \/ SubmitRateReset(t)
    \/ SubmitRateStamp(t)
    \/ SubmitGate(t)
    \/ SubmitReject(t)
    \/ SubmitPushBegin(t)
    \/ SubmitPushCheck(t)
    \/ SubmitPushWrite(t)
    \/ SubmitPushWriteRest(t)
    \/ SubmitPushStore(t)

\* UpdateOrder, line 64: *it->second = order
Overwritten(stored, order) == order

\* OrderManager::UpdateOrder, under orders_mutex_
UpdateOrder(order) ==
    /\ ~terminated
    /\ IF order.id \in DOMAIN orders_
       THEN /\ orders_' = [orders_ EXCEPT ![order.id] = Overwritten(@, order)]
            /\ updLog' = Append(updLog, [order |-> order, ok |-> TRUE])
       ELSE /\ UNCHANGED orders_
            /\ updLog' = Append(updLog, [order |-> order, ok |-> FALSE])
    /\ UNCHANGED <<ringVars, riskVars, stratVars, config_, order_queues_, exchange_orders_,
                   running_, next_order_id_, orders_this_second_, last_rate_check_, stats_,
                   processing_thread_, now, prod, worker, ctl, terminated,
                   omLog, popLog, admitLog, ctlLog>>

\* GetOrder: the stored record, or the zero record for nullptr
NoOrder == [ZeroOrder EXCEPT !.status = "nullptr"]
GetOrder(order_id) ==
    IF order_id \in DOMAIN orders_ THEN orders_[order_id] ELSE NoOrder

\* GetOrdersByExchange
GetOrdersByExchange(exchange) ==
    LET ids == SelectSeq(exchange_orders_[exchange], LAMBDA id : id \in DOMAIN orders_)
    IN [k \in 1 .. Len(ids) |-> orders_[ids[k]]]

\* what a step of the dispatch worker leaves alone besides the fields named
WorkerFrame ==
    UNCHANGED <<ringVars, riskVars, stratVars, config_, running_, orders_this_second_, last_rate_check_,
                processing_thread_, now, prod, ctl, terminated, omLog, ctlLog, updLog>>

\* ProcessingLoop, line 121: while (running_.load())
WorkerWhile ==
    /\ worker.pc = "while"
    /\ worker' = IF running_
                 THEN [worker EXCEPT !.pc = "for", !.i = 1, !.processed = FALSE, !.popped = {}]
                 ELSE [worker EXCEPT !.pc = "exited"]
    /\ UNCHANGED <<order_queues_, orders_, exchange_orders_, next_order_id_, stats_,
                   popLog, admitLog>>
    /\ WorkerFrame

\* ProcessingLoop, line 125 and 142-144: next queue of the pass, or the
\* pass is over (yield when nothing was processed); pop, line 62: load tail
WorkerFor ==
    /\ worker.pc = "for"
    /\ worker' = IF worker.i > Len(VenueOrder)
                 THEN [worker EXCEPT !.pc = "while"]
                 ELSE [worker EXCEPT !.pc = "check",
                          !.current_tail = order_queues_[VenueOrder[worker.i]].tail]
    /\ UNCHANGED <<order_queues_, orders_, exchange_orders_, next_order_id_, stats_,
                   popLog, admitLog>>
    /\ WorkerFrame

\* pop, line 64-66: load head, test for empty
WorkerPopCheck ==
    /\ worker.pc = "check"
    /\ worker' = IF PopEmpty(order_queues_[VenueOrder[worker.i]], worker.current_tail)
                 THEN [worker EXCEPT !.pc = "for", !.i = @ + 1]
                 ELSE [worker EXCEPT !.pc = "read"]
    /\ UNCHANGED <<order_queues_, orders_, exchange_orders_, next_order_id_, stats_,
                   popLog, admitLog>>
    /\ WorkerFrame

\* pop, line 68: read the slot
WorkerPopRead ==
    /\ worker.pc = "read"
    /\ worker' = [worker EXCEPT !.pc = "store",
                     !.order = PopRead(order_queues_[VenueOrder[worker.i]], worker.current_tail)]
    /\ UNCHANGED <<order_queues_, orders_, exchange_orders_, next_order_id_, stats_,
                   popLog, admitLog>>
    /\ WorkerFrame

\* pop, line 69-70: publish tail
WorkerPopStore ==
    /\ worker.pc = "store"
    /\ order_queues_' = [order_queues_ EXCEPT ![VenueOrder[worker.i]] =
                            PopStore(@, worker.current_tail)]
    /\ popLog' = Append(popLog, worker.order)
    /\ worker' = [worker EXCEPT !.pc = "process", !.popped = @ \cup {VenueOrder[worker.i]}]
    /\ UNCHANGED <<orders_, exchange_orders_, next_order_id_, stats_, admitLog>>
    /\ WorkerFrame

\* a plausible slip: the cancellation applied without comparing the venue
ProcessCancellation_AnyVenue(index, order_id, exchange, t_now) ==
    IF order_id \in DOMAIN index
    THEN [index EXCEPT ![order_id].status = "CANCELED", ![order_id].updated_at = t_now]
    ELSE index

\* ProcessCancellation: the index after a cancellation of (order_id, exchange)
ProcessCancellation(index, order_id, exchange, t_now) ==
    IF order_id \in DOMAIN index /\ index[order_id].exchange = exchange
    THEN [index EXCEPT ![order_id].status = "CANCELED", ![order_id].updated_at = t_now]
    ELSE index

\* a plausible slip: the ID read without the increment taking effect
NextId_Stuck(id) == id

\* next_order_id_ after fetch_add(1)
NextId(id) == id + 1

\* a plausible slip: the stored record keeps the submitted price as quantity
Admitted_Swapped(order, id, t_now) ==
    [order EXCEPT !.id = id, !.created_at = t_now, !.quantity = order.price]

\* ProcessOrder, line 155-158: the record stored for an admitted order
Admitted(order, id, t_now) == [order EXCEPT !.id = id, !.created_at = t_now]

\* orders_[id] = order_ptr
IndexPut(index, id, rec) ==
    [k \in DOMAIN index \cup {id} |-> IF k = id THEN rec ELSE index[k]]

\* ProcessOrder, then line 135-137: statistics, processed = true
WorkerProcess ==
    /\ worker.pc = "process"
    /\ IF worker.order.status = "CANCELED"
       THEN /\ orders_' = ProcessCancellation(orders_, worker.order.id,
                                              worker.order.exchange, now)
            /\ UNCHANGED <<exchange_orders_, next_order_id_, admitLog>>
       ELSE /\ next_order_id_' = NextId(next_order_id_)
            /\ orders_' = IndexPut(orders_, next_order_id_,
                                   Admitted(worker.order, next_order_id_, now))
            /\ exchange_orders_' = [exchange_orders_ EXCEPT ![worker.order.exchange] =
                                       Append(@, next_order_id_)]
            /\ admitLog' = Append(admitLog,
                                  [id |-> next_order_id_,
                                   client_order_id |-> worker.order.client_order_id])
    /\ stats_' = [stats_ EXCEPT !.orders_processed = @ + 1]
    /\ worker' = [worker EXCEPT !.pc = "for", !.i = @ + 1, !.processed = TRUE]
    /\ UNCHANGED <<order_queues_, popLog>>
    /\ WorkerFrame

\* the steps of the dispatch worker
WorkerSteps ==
    \/ WorkerWhile
    \/ WorkerFor
    \/ WorkerPopCheck
    \/ WorkerPopRead
    \/ WorkerPopStore
    \/ WorkerProcess

\* what Start / Stop leave alone besides the fields named
ControlFrame ==
    UNCHANGED <<ringVars, riskVars, stratVars, config_, order_queues_, orders_, exchange_orders_,
                next_order_id_, orders_this_second_, last_rate_check_, stats_, now, prod,
                omLog, popLog, admitLog, updLog>>

\* a plausible slip: Start that does not look at the flag it exchanges
AlreadyRunning_Ignored(was_running) == FALSE

\* Start, line 98: running_.exchange(true) found the flag set
AlreadyRunning(was_running) == was_running

\* a plausible slip: Stop that returns without joining
MustJoin_Never(was_running, joinable) == FALSE

\* Stop, line 109 and 113: the flag was set and the thread is joinable
MustJoin(was_running, joinable) == was_running /\ joinable

\* Start, line 97-106 (assigning to a joinable std::thread calls terminate)
Start ==
    /\ ctl = "idle"
    /\ ~terminated
    /\ running_' = TRUE
    /\ IF AlreadyRunning(running_)
       THEN UNCHANGED <<worker, processing_thread_, terminated>>
       ELSE IF processing_thread_.joinable
            THEN /\ terminated' = TRUE
                 /\ UNCHANGED <<worker, processing_thread_>>
            ELSE /\ worker' = [WorkerNone EXCEPT !.pc = "while"]
                 /\ processing_thread_' = [joinable |-> TRUE]
                 /\ UNCHANGED terminated
    /\ ctlLog' = Append(ctlLog, [call |-> "Start", was_running |-> running_])
    /\ UNCHANGED ctl
    /\ ControlFrame

\* Stop, line 108-114: clear the flag, then wait in join()
Stop ==
    /\ ctl = "idle"
    /\ ~terminated
    /\ running_' = FALSE
    /\ ctl' = IF MustJoin(running_, processing_thread_.joinable) THEN "join" ELSE "idle"
    /\ ctlLog' = Append(ctlLog, [call |-> "Stop", was_running |-> running_])
    /\ UNCHANGED <<worker, processing_thread_, terminated>>
    /\ ControlFrame

\* Stop, line 114-115: join() returns once the worker has left its loop
StopJoined ==
    /\ ctl = "join"
    /\ worker.pc = "exited"
    /\ worker' = WorkerNone
    /\ processing_thread_' = [joinable |-> FALSE]
    /\ ctl' = "idle"
    /\ UNCHANGED <<running_, terminated, ctlLog>>
    /\ ControlFrame

(***************************************************************************)
(* RiskEngine  (src/risk/risk_engine.cpp, include/risk/risk_engine.h)      *)
(*                                                                         *)
(* Prices, quantities and values are whole numbers of some unit; the       *)
(* average price and the PnL, which come out of a division, are exact      *)
(* fractions [n, d] with d > 0 in lowest terms.  The latency counter and   *)
(* the log buffer (wall-clock and text) are left out.                      *)
(***************************************************************************)
MAX_SYMBOLS == 1000

Abs(x) == IF x < 0 THEN -x ELSE x

Min(x, y) == IF y < x THEN y ELSE x

RECURSIVE Gcd(_, _)
Gcd(a, b) == IF b = 0 THEN a ELSE Gcd(b, a % b)

\* the fraction n/d in lowest terms (d # 0)
Frac(n, d) ==
    LET g == Gcd(Abs(n), Abs(d))
        sg == IF d < 0 THEN -1 ELSE 1
    IN [n |-> sg * (n \div g), d |-> sg * (d \div g)]

FInt(i) == [n |-> i, d |-> 1]
\* common factors are cancelled before multiplying, which keeps the
\* intermediate products small
FAdd(a, b) ==
    LET g == Gcd(a.d, b.d)
    IN Frac(a.n * (b.d \div g) + b.n * (a.d \div g), (a.d \div g) * b.d)
FSub(a, b) ==
    LET g == Gcd(a.d, b.d)
    IN Frac(a.n * (b.d \div g) - b.n * (a.d \div g), (a.d \div g) * b.d)
FMul(a, b) ==
    LET g1 == Gcd(Abs(a.n), Abs(b.d))
        g2 == Gcd(Abs(b.n), Abs(a.d))
    IN IF g1 = 0 \/ g2 = 0 THEN Frac(a.n * b.n, a.d * b.d)
       ELSE Frac((a.n \div g1) * (b.n \div g2), (a.d \div g2) * (b.d \div g1))
FDiv(a, b) == Frac(a.n * b.d, a.d * b.n)
FLess(a, b) ==
    LET g == Gcd(a.d, b.d)
    IN IF g = 0 THEN a.n * b.d < b.n * a.d
       ELSE a.n * (b.d \div g) < b.n * (a.d \div g)

\* symbols as their characters' codes: "Aa" and "BB" hash alike, "X" apart
SymAa == <<65, 97>>
SymBB == <<66, 66>>
SymX == <<88>>
Symbols == {SymAa, SymBB, SymX}

\* hashSymbol: hash = hash * 31 + c over the characters
RECURSIVE hashSymbol(_)
hashSymbol(symbol) ==
    IF symbol = << >> THEN 0
    ELSE hashSymbol(SubSeq(symbol, 1, Len(symbol) - 1)) * 31 + symbol[Len(symbol)]

\* positions_[hashSymbol(symbol) % MAX_SYMBOLS]
SlotOf(symbol) == hashSymbol(symbol) % MAX_SYMBOLS

Slots == { SlotOf(sym) : sym \in Symbols }

\* PositionInfo{}: quantity, value, avg_price all 0.0
ZeroPosition == [quantity |-> 0, value |-> 0, avg_price |-> FInt(0)]

\* the limits the engine is constructed with
RiskConfigs ==
    { [max_position_value |-> 15, max_order_value |-> 10,
       daily_loss_limit |-> 2, max_open_orders |-> 2] }

\* orders handed to check_order
RiskOrders ==
    { [symbol |-> sym, side |-> sd, price |-> pq[1], quantity |-> pq[2]] :
          sym \in Symbols, sd \in {"BUY", "SELL"}, pq \in {<<4, 1>>, <<5, 2>>, <<6, 2>>} }

\* fills reported to update_position
Fills ==
    { [symbol |-> sym, quantity |-> q, price |-> p] :
          sym \in {SymAa, SymX}, q \in {-2, 2}, p \in {4, 6} }
    \cup { [symbol |-> SymX, quantity |-> 1, price |-> 100],
           [symbol |-> SymX, quantity |-> -1, price |-> 110] }

NoCall == [op |-> "none"]

\* RiskEngine::RiskEngine
\* a thread outside updateOrderCount
CountIdle == [pc |-> "idle", delta |-> 0]

\* a thread outside updatePosition
FillIdle ==
    [pc |-> "idle", symbol |-> << >>, quantity |-> 0, price |-> 0, old_quantity |-> 0,
     realized_pnl |-> FInt(0), current_pnl |-> FInt(0)]

RiskInit ==
    /\ risk_config_ \in RiskConfigs
    /\ risk_running_ = FALSE
    /\ positions_ = [sl \in Slots |-> ZeroPosition]
    /\ daily_pnl_ = FInt(0)
    /\ open_orders_ = 0
    /\ total_checks_ = 0
    /\ riskFills = 0
    /\ riskLast = NoCall
    /\ counting = [t \in Threads |-> CountIdle]
    /\ countLog = << >>
    /\ filling = [t \in Threads |-> FillIdle]
    /\ fillLog = << >>

RiskFrame ==
    UNCHANGED <<ringVars, omVars, stratVars, risk_config_, counting, countLog, filling, fillLog>>

\* RiskEngine::start
RiskStart ==
    /\ risk_running_' = TRUE
    /\ riskLast' = NoCall
    /\ UNCHANGED <<positions_, daily_pnl_, open_orders_, total_checks_, riskFills>>
    /\ RiskFrame

\* RiskEngine::stop
RiskStop ==
    /\ risk_running_' = FALSE
    /\ riskLast' = NoCall
    /\ UNCHANGED <<positions_, daily_pnl_, open_orders_, total_checks_, riskFills>>
    /\ RiskFrame

\* checkOrder, line 48: order.price * order.quantity
OrderValue(order) == order.price * order.quantity

\* checkOrder, line 49: order_value > max_order_value
ExceedsOrderValue(order_value, cfg) == order_value > cfg.max_order_value

\* checkOrder, line 57: pos.value + (BUY ? order_value : -order_value)
NewPositionValue(pos, order) ==
    IF order.side = "BUY" THEN pos.value + OrderValue(order)
    ELSE pos.value - OrderValue(order)

\* checkOrder, line 59: abs(new_position_value) > max_position_value
ExceedsPosition(new_position_value, cfg) ==
    Abs(new_position_value) > cfg.max_position_value

\* checkOrder, line 67: daily_pnl_ < -daily_loss_limit
ExceedsDailyLoss(daily_pnl, cfg) == FLess(daily_pnl, FInt(-cfg.daily_loss_limit))

\* a plausible slip: one order too many let through (> for >=)
TooManyOpen_OffByOne(open_orders, cfg) == open_orders > cfg.max_open_orders

\* checkOrder, line 75: open_orders_ >= max_open_orders
TooManyOpen(open_orders, cfg) == open_orders >= cfg.max_open_orders

\* checkOrder, line 45-79: the value of `passed` after the four gates
GatesPassed(order, cfg, positions, daily_pnl, open_orders) ==
    LET passed1 == ~ExceedsOrderValue(OrderValue(order), cfg)
        passed2 == passed1 /\
                   ~ExceedsPosition(NewPositionValue(positions[SlotOf(order.symbol)], order), cfg)
        passed3 == passed2 /\ ~ExceedsDailyLoss(daily_pnl, cfg)
        passed4 == passed3 /\ ~TooManyOpen(open_orders, cfg)
    IN passed4

\* a plausible slip: the open-order slot taken by the check itself (fetch_add
\* in place of load), so that a check reaching gate 4 raises the count
OpenOrdersAfterCheck_Reserving(order, cfg, positions, daily_pnl, open_orders) ==
    IF /\ ~ExceedsOrderValue(OrderValue(order), cfg)
       /\ ~ExceedsPosition(NewPositionValue(positions[SlotOf(order.symbol)], order), cfg)
       /\ ~ExceedsDailyLoss(daily_pnl, cfg)
    THEN open_orders + 1
    ELSE open_orders

\* checkOrder, line 75: open_orders_.load() leaves the count as it is
OpenOrdersAfterCheck(order, cfg, positions, daily_pnl, open_orders) == open_orders

\* RiskEngine::checkOrder
CheckOrder(order) ==
    /\ total_checks_ < MaxChecks
    /\ IF ~risk_running_
       THEN /\ riskLast' = [op |-> "check", order |-> order, result |-> FALSE]
            /\ UNCHANGED <<total_checks_, open_orders_>>
       ELSE /\ riskLast' = [op |-> "check", order |-> order,
                            result |-> GatesPassed(order, risk_config_, positions_,
                                                   daily_pnl_, open_orders_)]
            /\ open_orders_' = OpenOrdersAfterCheck(order, risk_config_, positions_,
                                                    daily_pnl_, open_orders_)
            /\ total_checks_' = total_checks_ + 1
    /\ UNCHANGED <<risk_running_, positions_, daily_pnl_, riskFills>>
    /\ RiskFrame

\* a plausible slip: the short side valued like the long side
calculateRealizedPnL_LongOnly(old_quantity, old_price, new_quantity, new_price) ==
    FMul(FInt(Min(Abs(old_quantity), Abs(new_quantity))), FSub(FInt(new_price), old_price))

\* calculateRealizedPnL
calculateRealizedPnL(old_quantity, old_price, new_quantity, new_price) ==
    LET closed_quantity == Min(Abs(old_quantity), Abs(new_quantity))
    IN IF old_quantity > 0
       THEN FMul(FInt(closed_quantity), FSub(FInt(new_price), old_price))
       ELSE FMul(FInt(closed_quantity), FSub(old_price, FInt(new_price)))

\* a plausible slip: every fill that leaves a position sets the average
NewAvgPrice_FillOnly(old_quantity, old_avg, quantity, price) ==
    IF old_quantity + quantity # 0 THEN FInt(price) ELSE old_avg

\* updatePosition, line 106-117: the average price after the fill
NewAvgPrice(old_quantity, old_avg, quantity, price) ==
    LET new_quantity == old_quantity + quantity IN
    IF new_quantity # 0
    THEN IF old_quantity * new_quantity > 0
         THEN FDiv(FAdd(FMul(FInt(old_quantity), old_avg), FInt(quantity * price)),
                   FInt(new_quantity))
         ELSE FInt(price)
    ELSE old_avg

\* RiskEngine::updatePosition
UpdatePosition(symbol, quantity, price) ==
    /\ riskFills < MaxFills
    /\ riskFills' = riskFills + 1
    /\ LET sl == SlotOf(symbol)
           pos == positions_[sl]
           old_quantity == pos.quantity
       IN /\ positions_' = [positions_ EXCEPT ![sl] =
                 [quantity  |-> old_quantity + quantity,
                  value     |-> (old_quantity + quantity) * price,
                  avg_price |-> NewAvgPrice(old_quantity, pos.avg_price, quantity, price)]]
          /\ daily_pnl_' =
                 IF old_quantity * quantity < 0
                 THEN FAdd(daily_pnl_,
                           calculateRealizedPnL(old_quantity, pos.avg_price, quantity, price))
                 ELSE daily_pnl_
    /\ riskLast' = [op |-> "fill", symbol |-> symbol, quantity |-> quantity, price |-> price]
    /\ UNCHANGED <<risk_running_, open_orders_, total_checks_>>
    /\ RiskFrame

\* RiskEngine::updateOrderCount; callers pair +1 on submission with -1 on
\* a terminal transition, and stop submitting once the limit is passed
UpdateOrderCount(delta) ==
    /\ open_orders_ + delta \in 0 .. (risk_config_.max_open_orders + 1)
    /\ open_orders_' = open_orders_ + delta
    /\ riskLast' = NoCall
    /\ UNCHANGED <<risk_running_, positions_, daily_pnl_, total_checks_, riskFills>>
    /\ RiskFrame

\* RiskEngine::resetDailyPnL
ResetDailyPnL ==
    /\ daily_pnl_' = FInt(0)
    /\ riskLast' = NoCall
    /\ UNCHANGED <<risk_running_, positions_, open_orders_, total_checks_, riskFills>>
    /\ RiskFrame

\* RiskEngine::getTotalExposure (over the slots in use; the others hold 0)
RECURSIVE SumAbsValue(_, _)
SumAbsValue(positions, slots) ==
    IF slots = {} THEN 0
    ELSE LET sl == CHOOSE x \in slots : TRUE
         IN Abs(positions[sl].value) + SumAbsValue(positions, slots \ {sl})

getTotalExposure == SumAbsValue(positions_, Slots)

\* a plausible slip: the delta stored instead of added
FetchAdd_Store(value, delta) == delta

\* open_orders_ += delta on std::atomic<int>: one read-modify-write
FetchAdd(value, delta) == value + delta

\* updateOrderCount is entered by thread t with argument delta
UpdateOrderCountCall(t, delta) ==
    /\ counting[t].pc = "idle"
    /\ Len(countLog) + Cardinality({u \in Threads : counting[u].pc # "idle"}) < MaxCountCalls
    /\ counting' = [counting EXCEPT ![t] = [pc |-> "add", delta |-> delta]]
    /\ UNCHANGED <<risk_config_, risk_running_, positions_, daily_pnl_, open_orders_,
                   total_checks_, riskFills, riskLast, countLog, filling, fillLog>>
    /\ UNCHANGED <<ringVars, omVars, stratVars>>

\* updateOrderCount, line 121, in thread t: the atomic add, then return
UpdateOrderCountAdd(t) ==
    /\ counting[t].pc = "add"
    /\ open_orders_' = FetchAdd(open_orders_, counting[t].delta)
    /\ countLog' = Append(countLog, [thread |-> t, delta |-> counting[t].delta])
    /\ counting' = [counting EXCEPT ![t] = CountIdle]
    /\ UNCHANGED <<risk_config_, risk_running_, positions_, daily_pnl_,
                   total_checks_, riskFills, riskLast, filling, fillLog>>
    /\ UNCHANGED <<ringVars, omVars, stratVars>>

\* what the steps of updatePosition leave alone
FillFrame ==
    /\ UNCHANGED <<risk_config_, risk_running_, open_orders_, total_checks_, riskFills,
                   riskLast, counting, countLog>>
    /\ UNCHANGED <<ringVars, omVars, stratVars>>

\* updatePosition is entered by thread t
FillCall(t, symbol, quantity, price) ==
    /\ filling[t].pc = "idle"
    /\ Len(fillLog) + Cardinality({u \in Threads : filling[u].pc # "idle"}) < MaxConcFills
    /\ filling' = [filling EXCEPT ![t] =
           [FillIdle EXCEPT !.pc = "position", !.symbol = symbol,
                            !.quantity = quantity, !.price = price]]
    /\ UNCHANGED <<positions_, daily_pnl_, fillLog>>
    /\ FillFrame

\* updatePosition, line 92-97, in thread t: quantity and value of the
\* symbol's slot, which no other thread of the specification touches
FillPosition(t) ==
    /\ filling[t].pc = "position"
    /\ LET f == filling[t]
           sl == SlotOf(f.symbol)
           old_quantity == positions_[sl].quantity
       IN /\ positions_' = [positions_ EXCEPT
                 ![sl].quantity = old_quantity + f.quantity,
                 ![sl].value = (old_quantity + f.quantity) * f.price]
          /\ filling' = [filling EXCEPT ![t].old_quantity = old_quantity,
                 ![t].pc = IF old_quantity * f.quantity < 0 THEN "load" ELSE "avg"]
          /\ fillLog' = IF old_quantity * f.quantity < 0 THEN fillLog
                        ELSE Append(fillLog, [thread |-> t, quantity |-> f.quantity,
                                              price |-> f.price, realized_pnl |-> FInt(0)])
    /\ UNCHANGED daily_pnl_
    /\ FillFrame

\* updatePosition, line 101-102, in thread t: the realized PnL is computed
\* and daily_pnl_ is loaded
FillLoadPnL(t) ==
    /\ filling[t].pc = "load"
    /\ LET f == filling[t]
           realized_pnl == calculateRealizedPnL(f.old_quantity,
                               positions_[SlotOf(f.symbol)].avg_price, f.quantity, f.price)
       IN /\ filling' = [filling EXCEPT ![t].realized_pnl = realized_pnl,
                                        ![t].current_pnl = daily_pnl_, ![t].pc = "store"]
          /\ fillLog' = Append(fillLog, [thread |-> t, quantity |-> f.quantity,
                                        price |-> f.price, realized_pnl |-> realized_pnl])
    /\ UNCHANGED <<positions_, daily_pnl_>>
    /\ FillFrame

\* updatePosition, line 103, in thread t: daily_pnl_.store
FillStorePnL(t) ==
    /\ filling[t].pc = "store"
    /\ daily_pnl_' = FAdd(filling[t].current_pnl, filling[t].realized_pnl)
    /\ filling' = [filling EXCEPT ![t].pc = "avg"]
    /\ UNCHANGED <<positions_, fillLog>>
    /\ FillFrame

\* updatePosition, line 106-118, in thread t: the average price, then return
FillAvg(t) ==
    /\ filling[t].pc = "avg"
    /\ LET f == filling[t]
           sl == SlotOf(f.symbol)
       IN positions_' = [positions_ EXCEPT ![sl].avg_price =
              NewAvgPrice(f.old_quantity, positions_[sl].avg_price, f.quantity, f.price)]
    /\ filling' = [filling EXCEPT ![t] = FillIdle]
    /\ UNCHANGED <<daily_pnl_, fillLog>>
    /\ FillFrame

\* the symbol each thread reports fills for
SymbolOf(t) == IF t = "T1" THEN SymAa ELSE SymX

\* the fills the threads report: a purchase, and a sale at a higher price
ConcFills == { [quantity |-> 2, price |-> 4], [quantity |-> -2, price |-> 6] }

\* two threads call updatePosition, each for its own symbol
RiskConcNext ==
    \/ \E t \in Threads, f \in ConcFills : FillCall(t, SymbolOf(t), f.quantity, f.price)
    \/ \E t \in Threads : FillPosition(t)
    \/ \E t \in Threads : FillLoadPnL(t)
    \/ \E t \in Threads : FillStorePnL(t)
    \/ \E t \in Threads : FillAvg(t)

\* fills of one symbol: purchases and sales of one or two units at two prices
TripFills ==
    { [quantity |-> q, price |-> p] : q \in {-2, -1, 1, 2}, p \in {4, 6} }

\* one thread calls updatePosition for one symbol
RiskTripNext ==
    \/ \E f \in TripFills : FillCall("T1", SymX, f.quantity, f.price)
    \/ FillPosition("T1")
    \/ FillLoadPnL("T1")
    \/ FillStorePnL("T1")
    \/ FillAvg("T1")

\* several threads call updateOrderCount with +1 and -1 in any order
RiskCountNext ==
    \/ \E t \in Threads, delta \in {1, -1} : UpdateOrderCountCall(t, delta)
    \/ \E t \in Threads : UpdateOrderCountAdd(t)

RiskNext ==
    \/ RiskStart
    \/ RiskStop
    \/ \E order \in RiskOrders : CheckOrder(order)
    \/ \E f \in Fills : UpdatePosition(f.symbol, f.quantity, f.price)
    \/ \E delta \in {1, -1} : UpdateOrderCount(delta)
    \/ ResetDailyPnL

(***************************************************************************)
(* ArbitrageDetector  (src/strategies/arbitrage_detector.cpp,              *)
(*                     include/strategies/arbitrage_detector.h)            *)
(*                                                                         *)
(* Prices, quantities, rates and amounts are exact fractions.  Names are   *)
(* sequences of character codes.  The clock is read in ticks of one        *)
(* second.  Of the 100 x 10 feed array only the entries in use are kept,   *)
(* and the opportunity ring is built with a small capacity.                *)
(***************************************************************************)
MAX_EXCHANGES == 10
ARB_MAX_SYMBOLS == 100

VenueA == <<65>>
VenueB == <<66>>
VenueC == <<67>>
SymY == <<89>>

\* strncpy(dst, src, sizeof(dst) - 1) into a char[16]
StoreName(name) == SubSeq(name, 1, Min(Len(name), 15))

FLeq(a, b) == ~FLess(b, a)

\* std::min on doubles
FMin(a, b) == IF FLess(b, a) THEN b ELSE a

\* PriceFeed::PriceFeed
ZeroFeed ==
    [exchange |-> << >>, symbol |-> << >>, bid_price |-> FInt(0), bid_quantity |-> FInt(0),
     ask_price |-> FInt(0), ask_quantity |-> FInt(0), timestamp_ns |-> 0]

\* ArbitrageOpportunity::ArbitrageOpportunity
ZeroOpportunity ==
    [id |-> << >>, symbol |-> << >>, buy_exchange |-> << >>, sell_exchange |-> << >>,
     buy_price |-> FInt(0), sell_price |-> FInt(0), max_quantity |-> FInt(0),
     profit_rate |-> FInt(0), net_profit |-> FInt(0), detected_at_ns |-> 0,
     valid_until_ns |-> 0]

\* a feed older than this is stale (detectOpportunities, line 85: one second)
StaleAge == TicksPerSecond

\* the configurations the detector is constructed with: both venues at a
\* taker fee of 0.1%, or venue A at 0.2% and the others at the default
ScenarioArbConfig ==
    [min_profit_rate |-> Frac(1, 1000), min_profit_amount |-> Frac(1, 10),
     max_position_size |-> FInt(1000), opportunity_ttl_ns |-> 1,
     taker_fees |-> [v \in {VenueA, VenueB} |-> Frac(1, 1000)],
     maker_fees |-> [v \in {} |-> FInt(0)]]

ArbConfigs ==
    { ScenarioArbConfig,
      [min_profit_rate |-> Frac(1, 1000), min_profit_amount |-> Frac(1, 10),
       max_position_size |-> FInt(1000), opportunity_ttl_ns |-> 1,
       taker_fees |-> [v \in {VenueA} |-> Frac(2, 1000)],
       maker_fees |-> [v \in {} |-> FInt(0)]] }

\* top-of-book quotes: bid, bid quantity, ask, ask quantity
Quote(bid, bid_quantity, ask, ask_quantity) ==
    [bid_price |-> bid, bid_quantity |-> bid_quantity,
     ask_price |-> ask, ask_quantity |-> ask_quantity]

\* quotes of venue A, the cheaper venue: ask 100 for 1 or for 20
QuotesA ==
    { Quote(FInt(99), FInt(1), FInt(100), FInt(1)),
      Quote(FInt(99), FInt(20), FInt(100), FInt(20)) }

\* quotes of venue B: bid 100.5 for 1, bid 100.25 (fees eat the edge), bid
\* 100.5 for 0.25 (amount too small), bid 102 for 20 (position size capped)
QuotesB ==
    { Quote(Frac(201, 2), FInt(1), FInt(101), FInt(1)),
      Quote(Frac(401, 4), FInt(1), FInt(101), FInt(1)),
      Quote(Frac(201, 2), Frac(1, 4), FInt(101), Frac(1, 4)),
      Quote(FInt(102), FInt(20), FInt(103), FInt(20)) }

\* the quote of venue C: bid 100.05 (edge below the minimum rate)
QuotesC == { Quote(Frac(2001, 20), FInt(1), FInt(103), FInt(1)) }

\* the arguments of update_price_feed
FeedUpdates ==
    { [exchange |-> VenueA, symbol |-> SymX, quote |-> q] : q \in QuotesA }
    \cup { [exchange |-> VenueB, symbol |-> SymX, quote |-> q] : q \in QuotesB }
    \cup { [exchange |-> VenueC, symbol |-> SymX, quote |-> q] : q \in QuotesC }
    \cup { [exchange |-> VenueA, symbol |-> SymY, quote |-> Quote(FInt(99), FInt(1), FInt(100), FInt(1))] }

NoArbCall == [op |-> "none"]

\* the detection thread outside detectOpportunities
DetIdle == [pc |-> "idle", current_time |-> 0, sym_count |-> 0]

\* a thread outside updatePriceFeed; calls and done are history: the calls
\* it has started and the arguments of those that ran to the end
UpdIdle ==
    [pc |-> "idle", exchange |-> << >>, symbol |-> << >>, quote |-> Quote(FInt(0), FInt(0), FInt(0), FInt(0)),
     sym_idx |-> 0, exchange_idx |-> 0, calls |-> 0, done |-> {}]

\* no call was noted yet
NoTable == [index |-> << >>, prices |-> << >>, count |-> 0, processed |-> 0]

\* ArbitrageDetector::ArbitrageDetector
ArbInit ==
    /\ arb_config_ \in ArbConfigs
    /\ arb_running_ = FALSE
    /\ symbol_index_ = << >>
    /\ symbol_prices_ = << >>
    /\ symbol_count_ = 0
    /\ opportunity_buffer_ = RingBuffer(MaxOpportunityBuffer, ZeroOpportunity)
    /\ detected_count_ = 0
    /\ processed_prices_ = 0
    /\ arbNow = 0
    /\ arbPasses = 0
    /\ arbLast = NoArbCall
    /\ arbDet = DetIdle
    /\ arbUpd = [t \in Threads |-> UpdIdle]
    /\ arbBefore = NoTable

\* a detector that is constructed and then left alone
ArbQuiet == ArbInit /\ arb_config_ = ScenarioArbConfig

\* what a call on the detector leaves alone besides the fields named
\* the feed table and its counters, as one value
Table == [index |-> symbol_index_, prices |-> symbol_prices_, count |-> symbol_count_,
          processed |-> processed_prices_]

ArbOuterFrame == UNCHANGED <<ringVars, omVars, riskVars, mmVars, arb_config_>>

ArbCallFrame == ArbOuterFrame /\ UNCHANGED arbBefore

\* the same for a call made in one step while no other call is under way
ArbFrame == ArbCallFrame /\ UNCHANGED <<arbDet, arbUpd>>

\* the clock of getCurrentTimeNanos advances
ArbTick ==
    /\ arbNow < MaxArbTime
    /\ arbNow' = arbNow + 1
    /\ arbLast' = NoArbCall
    /\ UNCHANGED <<arb_running_, symbol_index_, symbol_prices_, symbol_count_,
                   opportunity_buffer_, detected_count_, processed_prices_, arbPasses>>
    /\ ArbFrame

\* ArbitrageDetector::start
ArbStart ==
    /\ arb_running_' = TRUE
    /\ arbLast' = NoArbCall
    /\ UNCHANGED <<symbol_index_, symbol_prices_, symbol_count_, opportunity_buffer_,
                   detected_count_, processed_prices_, arbNow, arbPasses>>
    /\ ArbFrame

\* ArbitrageDetector::stop
ArbStop ==
    /\ arb_running_' = FALSE
    /\ arbLast' = NoArbCall
    /\ UNCHANGED <<symbol_index_, symbol_prices_, symbol_count_, opportunity_buffer_,
                   detected_count_, processed_prices_, arbNow, arbPasses>>
    /\ ArbFrame

\* function f with f[k] set to v, k added to the domain if new
MapPut(f, k, v) == [x \in DOMAIN f \cup {k} |-> IF x = k THEN v ELSE f[x]]

\* SymbolPrices::SymbolPrices, then line 203: the name copied in
NewSymbolPrices(symbol) ==
    [symbol |-> StoreName(symbol), exchange_count |-> 0, feeds |-> << >>]

\* getOrCreateSymbolIndex: the index returned and the table after the call
getOrCreateSymbolIndex(symbol, index, prices, count) ==
    IF symbol \in DOMAIN index
    THEN [idx |-> index[symbol], index |-> index, prices |-> prices, count |-> count]
    ELSE IF count >= ARB_MAX_SYMBOLS
         THEN [idx |-> ARB_MAX_SYMBOLS, index |-> index, prices |-> prices, count |-> count]
         ELSE [idx |-> count,
               index |-> MapPut(index, symbol, count),
               prices |-> MapPut(prices, count, NewSymbolPrices(symbol)),
               count |-> count + 1]

\* updatePriceFeed, line 30-38: the slot holding the venue, or -1
FindExchange(sym_prices, exchange) ==
    LET hits == {i \in 0 .. (sym_prices.exchange_count - 1) :
                     sym_prices.feeds[i].exchange = exchange}
    IN IF hits = {} THEN -1 ELSE CHOOSE i \in hits : \A k \in hits : i <= k

\* updatePriceFeed, line 51-58: the slot after the update
WriteFeed(exchange, symbol, quote, timestamp) ==
    [exchange |-> StoreName(exchange), symbol |-> StoreName(symbol),
     bid_price |-> quote.bid_price, bid_quantity |-> quote.bid_quantity,
     ask_price |-> quote.ask_price, ask_quantity |-> quote.ask_quantity,
     timestamp_ns |-> timestamp]

\* the k-th of the symbols and venues recorded beforehand: "S" or "V" and
\* one more character
RecordedSymbol(k) == <<83, k>>
RecordedVenue(k) == <<86, k>>

\* the feed recorded beforehand for every such symbol and venue
RecordedQuote == Quote(FInt(99), FInt(1), FInt(100), FInt(1))

\* the feed table of a detector after update_price_feed was called, at time
\* 0, for venues 1 .. venues of symbol 1 and then for venue 1 of the symbols
\* 2 .. symbols
Recorded(symbols, venues) ==
    /\ symbol_index_ = [name \in {RecordedSymbol(k) : k \in 1 .. symbols} |-> name[2] - 1]
    /\ symbol_prices_ =
           [i \in 0 .. (symbols - 1) |->
               [symbol |-> StoreName(RecordedSymbol(i + 1)),
                exchange_count |-> IF i = 0 THEN venues ELSE 1,
                feeds |-> [j \in 0 .. ((IF i = 0 THEN venues ELSE 1) - 1) |->
                              WriteFeed(RecordedVenue(j + 1), RecordedSymbol(i + 1),
                                        RecordedQuote, 0)]]]
    /\ symbol_count_ = symbols
    /\ processed_prices_ = IF symbols = 0 THEN 0 ELSE symbols + venues - 1

\* ArbitrageDetector::ArbitrageDetector and the calls that recorded symbols
\* and venues beforehand
ArbInitRecorded(symbols, venues) ==
    /\ arb_config_ = ScenarioArbConfig
    /\ arb_running_ = FALSE
    /\ Recorded(symbols, venues)
    /\ opportunity_buffer_ = RingBuffer(MaxOpportunityBuffer, ZeroOpportunity)
    /\ detected_count_ = 0
    /\ arbNow = 0
    /\ arbPasses = 0
    /\ arbLast = NoArbCall
    /\ arbDet = DetIdle
    /\ arbUpd = [t \in Threads |-> UpdIdle]
    /\ arbBefore = NoTable

\* ArbitrageDetector::updatePriceFeed, one caller
UpdatePriceFeed(exchange, symbol, quote) ==
    /\ processed_prices_ < MaxFeedUpdates
    /\ LET got == getOrCreateSymbolIndex(symbol, symbol_index_, symbol_prices_, symbol_count_)
       IN /\ symbol_index_' = got.index
          /\ symbol_count_' = got.count
          /\ IF got.idx >= ARB_MAX_SYMBOLS
             THEN /\ symbol_prices_' = got.prices
                  /\ UNCHANGED processed_prices_
             ELSE LET sym_prices == got.prices[got.idx]
                      count == sym_prices.exchange_count
                      found == FindExchange(sym_prices, exchange)
                  IN IF found = -1 /\ count >= MAX_EXCHANGES
                     THEN /\ symbol_prices_' = got.prices
                          /\ UNCHANGED processed_prices_
                     ELSE LET exchange_idx == IF found = -1 THEN count ELSE found
                              new_count == IF found = -1 THEN count + 1 ELSE count
                          IN /\ symbol_prices_' =
                                    [got.prices EXCEPT ![got.idx] =
                                        [@ EXCEPT !.exchange_count = new_count,
                                                  !.feeds = MapPut(@, exchange_idx,
                                                      WriteFeed(exchange, symbol, quote, arbNow))]]
                             /\ processed_prices_' = processed_prices_ + 1
    /\ arbLast' = NoArbCall
    /\ UNCHANGED <<arb_running_, opportunity_buffer_, detected_count_, arbNow, arbPasses>>
    /\ ArbFrame

\* what a step of updatePriceFeed leaves alone besides the fields named
UpdOuterFrame ==
    /\ UNCHANGED <<arb_running_, opportunity_buffer_, detected_count_, arbNow, arbPasses,
                   arbLast, arbDet>>
    /\ ArbOuterFrame

UpdFrame == UpdOuterFrame /\ UNCHANGED arbBefore

\* updatePriceFeed is entered
UpdEnter(t, exchange, symbol, quote) ==
    /\ arbUpd[t].pc = "idle"
    /\ arbUpd[t].calls < MaxConcUpdates
    /\ arbUpd' = [arbUpd EXCEPT ![t].pc = "find", ![t].exchange = exchange,
                                ![t].symbol = symbol, ![t].quote = quote,
                                ![t].calls = @ + 1]
    /\ UNCHANGED <<symbol_index_, symbol_prices_, symbol_count_, processed_prices_>>

UpdCall(t, exchange, symbol, quote) ==
    /\ UpdEnter(t, exchange, symbol, quote)
    /\ UpdFrame

\* the same, the table the call finds being noted
UpdCallNoted(t, exchange, symbol, quote) ==
    /\ UpdEnter(t, exchange, symbol, quote)
    /\ arbBefore' = Table
    /\ UpdOuterFrame

\* getOrCreateSymbolIndex, line 189-192: symbol_index_.find
UpdFind(t) ==
    /\ arbUpd[t].pc = "find"
    /\ arbUpd' = IF arbUpd[t].symbol \in DOMAIN symbol_index_
                 THEN [arbUpd EXCEPT ![t].pc = "search",
                                     ![t].sym_idx = symbol_index_[arbUpd[t].symbol]]
                 ELSE [arbUpd EXCEPT ![t].pc = "alloc"]
    /\ UNCHANGED <<symbol_index_, symbol_prices_, symbol_count_, processed_prices_>>
    /\ UpdFrame

\* getOrCreateSymbolIndex, line 195-196: symbol_count_.fetch_add(1)
UpdAlloc(t) ==
    /\ arbUpd[t].pc = "alloc"
    /\ symbol_count_' = symbol_count_ + 1
    /\ arbUpd' = [arbUpd EXCEPT ![t].sym_idx = symbol_count_,
                                ![t].pc = IF symbol_count_ >= ARB_MAX_SYMBOLS
                                          THEN "undo" ELSE "init"]
    /\ UNCHANGED <<symbol_index_, symbol_prices_, processed_prices_>>
    /\ UpdFrame

\* a plausible slip: the count taken at line 195 is not given back
UpdUndo_NoSub(t) ==
    /\ arbUpd[t].pc = "undo"
    /\ arbUpd' = [arbUpd EXCEPT ![t].pc = "idle"]
    /\ UNCHANGED <<symbol_index_, symbol_prices_, symbol_count_, processed_prices_>>
    /\ UpdFrame

\* getOrCreateSymbolIndex, line 197-198, then updatePriceFeed, line 22-24:
\* fetch_sub(1) and the update is dropped
UpdUndo(t) ==
    /\ arbUpd[t].pc = "undo"
    /\ symbol_count_' = symbol_count_ - 1
    /\ arbUpd' = [arbUpd EXCEPT ![t].pc = "idle"]
    /\ UNCHANGED <<symbol_index_, symbol_prices_, processed_prices_>>
    /\ UpdFrame

\* getOrCreateSymbolIndex, line 202-203: the name copied into the new entry
UpdInitSymbol(t) ==
    /\ arbUpd[t].pc = "init"
    /\ symbol_prices_' = MapPut(symbol_prices_, arbUpd[t].sym_idx,
                                NewSymbolPrices(arbUpd[t].symbol))
    /\ arbUpd' = [arbUpd EXCEPT ![t].pc = "index"]
    /\ UNCHANGED <<symbol_index_, symbol_count_, processed_prices_>>
    /\ UpdFrame

\* getOrCreateSymbolIndex, line 206: symbol_index_[sym_str] = new_idx
UpdIndex(t) ==
    /\ arbUpd[t].pc = "index"
    /\ symbol_index_' = MapPut(symbol_index_, arbUpd[t].symbol, arbUpd[t].sym_idx)
    /\ arbUpd' = [arbUpd EXCEPT ![t].pc = "search"]
    /\ UNCHANGED <<symbol_prices_, symbol_count_, processed_prices_>>
    /\ UpdFrame

\* symbol_prices_[sym_idx] with the slots below exchange_count that no
\* thread has written yet holding a default-constructed PriceFeed
CountedFeeds(sym_prices) ==
    [sym_prices EXCEPT !.feeds =
        [i \in DOMAIN sym_prices.feeds \cup (0 .. (sym_prices.exchange_count - 1)) |->
            IF i \in DOMAIN sym_prices.feeds THEN sym_prices.feeds[i] ELSE ZeroFeed]]

\* updatePriceFeed, line 31-48: exchange_count is loaded and the slots below
\* it are searched; a venue not found takes slot count, or the update is
\* dropped when the slots are used up
UpdSearch(t) ==
    /\ arbUpd[t].pc = "search"
    /\ LET sym_prices == CountedFeeds(symbol_prices_[arbUpd[t].sym_idx])
           count == sym_prices.exchange_count
           found == FindExchange(sym_prices, arbUpd[t].exchange)
       IN arbUpd' = IF found # -1
                    THEN [arbUpd EXCEPT ![t].pc = "write", ![t].exchange_idx = found]
                    ELSE IF count < MAX_EXCHANGES
                    THEN [arbUpd EXCEPT ![t].pc = "bump", ![t].exchange_idx = count]
                    ELSE [arbUpd EXCEPT ![t].pc = "idle"]
    /\ UNCHANGED <<symbol_index_, symbol_prices_, symbol_count_, processed_prices_>>
    /\ UpdFrame

\* updatePriceFeed, line 44: exchange_count.fetch_add(1)
UpdBump(t) ==
    /\ arbUpd[t].pc = "bump"
    /\ symbol_prices_' = [symbol_prices_ EXCEPT ![arbUpd[t].sym_idx].exchange_count = @ + 1]
    /\ arbUpd' = [arbUpd EXCEPT ![t].pc = "write"]
    /\ UNCHANGED <<symbol_index_, symbol_count_, processed_prices_>>
    /\ UpdFrame

\* updatePriceFeed, line 51-58: the slot is written
UpdWrite(t) ==
    /\ arbUpd[t].pc = "write"
    /\ symbol_prices_' =
           [symbol_prices_ EXCEPT ![arbUpd[t].sym_idx].feeds =
               MapPut(@, arbUpd[t].exchange_idx,
                      WriteFeed(arbUpd[t].exchange, arbUpd[t].symbol, arbUpd[t].quote, arbNow))]
    /\ arbUpd' = [arbUpd EXCEPT ![t].pc = "count"]
    /\ UNCHANGED <<symbol_index_, symbol_count_, processed_prices_>>
    /\ UpdFrame

\* updatePriceFeed, line 60: processed_prices_.fetch_add(1)
UpdCount(t) ==
    /\ arbUpd[t].pc = "count"
    /\ processed_prices_' = processed_prices_ + 1
    /\ arbUpd' = [arbUpd EXCEPT ![t].pc = "idle",
                                ![t].done = @ \cup {[exchange |-> arbUpd[t].exchange,
                                                     symbol |-> arbUpd[t].symbol,
                                                     quote |-> arbUpd[t].quote]}]
    /\ UNCHANGED <<symbol_index_, symbol_prices_, symbol_count_>>
    /\ UpdFrame

\* the steps of a thread inside updatePriceFeed
UpdSteps(t) ==
    \/ UpdFind(t)
    \/ UpdAlloc(t)
    \/ UpdUndo(t)
    \/ UpdInitSymbol(t)
    \/ UpdIndex(t)
    \/ UpdSearch(t)
    \/ UpdBump(t)
    \/ UpdWrite(t)
    \/ UpdCount(t)

\* a plausible slip: the fee rate returned in place of the fee amount
calculateFee_RateOnly(cfg, exchange, price, is_taker) ==
    IF exchange \in DOMAIN cfg.taker_fees THEN cfg.taker_fees[exchange] ELSE Frac(1, 1000)

\* ArbitrageDetector::calculateFee
calculateFee(cfg, exchange, price, is_taker) ==
    IF is_taker /\ exchange \in DOMAIN cfg.taker_fees
    THEN FMul(price, cfg.taker_fees[exchange])
    ELSE IF ~is_taker /\ exchange \in DOMAIN cfg.maker_fees
         THEN FMul(price, cfg.maker_fees[exchange])
         ELSE FMul(price, Frac(1, 1000))

\* a plausible slip: the amount gate left out
BelowMinAmount_Never(net_profit, cfg) == FALSE

\* checkArbitrageOpportunity, line 143: net_profit < min_profit_amount
BelowMinAmount(net_profit, cfg) == FLess(net_profit, cfg.min_profit_amount)

\* checkArbitrageOpportunity: whether the pair is emitted, and the
\* opportunity built from it (line 108-165)
checkArbitrageOpportunity(cfg, buy, sell, symbol, timestamp) ==
    LET price_diff == FSub(sell.bid_price, buy.ask_price)
        profit_rate == FDiv(price_diff, buy.ask_price)
        buy_fee == calculateFee(cfg, buy.exchange, buy.ask_price, TRUE)
        sell_fee == calculateFee(cfg, sell.exchange, sell.bid_price, TRUE)
        total_fee_rate == FDiv(FAdd(buy_fee, sell_fee), buy.ask_price)
        net_profit_rate == FSub(profit_rate, total_fee_rate)
        min_quantity == FMin(buy.ask_quantity, sell.bid_quantity)
        max_quantity == IF FLess(cfg.max_position_size, FMul(min_quantity, buy.ask_price))
                        THEN FDiv(cfg.max_position_size, buy.ask_price)
                        ELSE min_quantity
        net_profit == FSub(FMul(max_quantity, price_diff),
                           FMul(max_quantity, FAdd(buy_fee, sell_fee)))
    IN IF FLeq(price_diff, FInt(0)) THEN [emit |-> FALSE]
       ELSE IF FLess(profit_rate, cfg.min_profit_rate) THEN [emit |-> FALSE]
       ELSE IF FLess(net_profit_rate, cfg.min_profit_rate) THEN [emit |-> FALSE]
       ELSE IF BelowMinAmount(net_profit, cfg) THEN [emit |-> FALSE]
       ELSE [emit |-> TRUE,
             opportunity |->
                 [id |-> <<symbol, buy.exchange, sell.exchange, timestamp>>,
                  symbol |-> StoreName(symbol),
                  buy_exchange |-> StoreName(buy.exchange),
                  sell_exchange |-> StoreName(sell.exchange),
                  buy_price |-> buy.ask_price, sell_price |-> sell.bid_price,
                  max_quantity |-> max_quantity, profit_rate |-> net_profit_rate,
                  net_profit |-> net_profit, detected_at_ns |-> timestamp,
                  valid_until_ns |-> timestamp + cfg.opportunity_ttl_ns]]

\* detectOpportunities, line 85 and 93: current_time - timestamp_ns > 1 s,
\* the subtraction taken in uint64_t: for a stamp later than current_time
\* the difference wraps to 2^64 minus the distance, far above one second
Stale(feed, current_time) ==
    \/ current_time - feed.timestamp_ns < 0
    \/ current_time - feed.timestamp_ns > StaleAge

\* the venue pairs (i, j), i < j, in the order of the two loops
RECURSIVE PairSeq(_, _, _)
PairSeq(i, j, n) ==
    IF i >= n THEN << >>
    ELSE IF j >= n THEN PairSeq(i + 1, i + 2, n)
    ELSE << <<i, j>> >> \o PairSeq(i, j + 1, n)

\* detectOpportunities, line 74-101: the checks made for one symbol, in order
RECURSIVE PairChecks(_, _, _, _)
PairChecks(sym_prices, pairs, k, current_time) ==
    IF k > Len(pairs) THEN << >>
    ELSE LET feed_i == sym_prices.feeds[pairs[k][1]]
             feed_j == sym_prices.feeds[pairs[k][2]]
             rest == PairChecks(sym_prices, pairs, k + 1, current_time)
         IN IF Stale(feed_i, current_time) \/ Stale(feed_j, current_time)
            THEN rest
            ELSE << [buy |-> feed_i, sell |-> feed_j, symbol |-> sym_prices.symbol],
                    [buy |-> feed_j, sell |-> feed_i, symbol |-> sym_prices.symbol] >> \o rest

SymbolChecks(sym_prices, current_time) ==
    IF sym_prices.exchange_count < 2 THEN << >>
    ELSE PairChecks(sym_prices, PairSeq(0, 1, sym_prices.exchange_count), 1, current_time)

\* detectOpportunities, line 72-102: the checks of a whole pass, in order
RECURSIVE PassChecks(_, _, _, _)
PassChecks(prices, sym_idx, sym_count, current_time) ==
    IF sym_idx >= sym_count THEN << >>
    ELSE SymbolChecks(prices[sym_idx], current_time)
             \o PassChecks(prices, sym_idx + 1, sym_count, current_time)

\* checkArbitrageOpportunity, line 168-170, over the checks of a pass: the
\* ring, the counter and the opportunities pushed
RECURSIVE RunChecks(_, _, _, _, _)
RunChecks(cfg, checks, k, timestamp, st) ==
    IF k > Len(checks) THEN st
    ELSE LET c == checks[k]
             r == checkArbitrageOpportunity(cfg, c.buy, c.sell, c.symbol, timestamp)
             q == st.buffer
             next_head == NextIndex(q, q.head)
         IN IF ~r.emit \/ PushFull(q, next_head)
            THEN RunChecks(cfg, checks, k + 1, timestamp, st)
            ELSE RunChecks(cfg, checks, k + 1, timestamp,
                     [buffer |-> PushStore(PushWrite(q, q.head, r.opportunity), next_head),
                      detected |-> st.detected + 1,
                      emitted |-> Append(st.emitted, r.opportunity)])

\* ArbitrageDetector::detectOpportunities, one pass of the detection thread
DetectOpportunities ==
    /\ arbPasses < MaxPasses
    /\ IF ~arb_running_
       THEN /\ arbLast' = [op |-> "detect", running |-> FALSE, emitted |-> << >>]
            /\ UNCHANGED <<opportunity_buffer_, detected_count_, arbPasses>>
       ELSE LET checks == PassChecks(symbol_prices_, 0, symbol_count_, arbNow)
                st == RunChecks(arb_config_, checks, 1, arbNow,
                                [buffer |-> opportunity_buffer_,
                                 detected |-> detected_count_, emitted |-> << >>])
            IN /\ opportunity_buffer_' = st.buffer
               /\ detected_count_' = st.detected
               /\ arbPasses' = arbPasses + 1
               /\ arbLast' = [op |-> "detect", running |-> TRUE, emitted |-> st.emitted]
    /\ UNCHANGED <<arb_running_, symbol_index_, symbol_prices_, symbol_count_,
                   processed_prices_, arbNow>>
    /\ ArbFrame

\* detectOpportunities, line 64-69: the running flag is tested, the clock
\* and symbol_count_ are read
DetectBegin ==
    /\ arbDet.pc = "idle"
    /\ arbPasses < MaxPasses
    /\ IF ~arb_running_
       THEN /\ arbLast' = [op |-> "detect", running |-> FALSE, emitted |-> << >>]
            /\ UNCHANGED arbDet
       ELSE /\ arbDet' = [pc |-> "loop", current_time |-> arbNow,
                          sym_count |-> symbol_count_]
            /\ arbLast' = NoArbCall
    /\ UNCHANGED <<arb_running_, symbol_index_, symbol_prices_, symbol_count_,
                   opportunity_buffer_, detected_count_, processed_prices_, arbNow,
                   arbPasses, arbUpd>>
    /\ ArbCallFrame

\* what symbol_prices_[MAX_SYMBOLS] can hold: the read is past the end of
\* the array, so the entry is whatever lies behind it, here an entry with
\* no venue or one with two venues quoted at the time given
PastTheEnd(current_time) ==
    { NewSymbolPrices(<< >>),
      [NewSymbolPrices(<< >>) EXCEPT
           !.exchange_count = 2,
           !.feeds = [i \in 0 .. 1 |-> [ZeroFeed EXCEPT !.timestamp_ns = current_time]]] }

\* symbol_prices_ as the loop over sym_idx < sym_count reads it: entries
\* below symbol_count_ that no thread has written yet are default
\* constructed, an entry at MAX_SYMBOLS is past the end
LoopReads(sym_count, beyond) ==
    [i \in 0 .. (sym_count - 1) |->
        IF i \in DOMAIN symbol_prices_ THEN CountedFeeds(symbol_prices_[i])
        ELSE IF i < ARB_MAX_SYMBOLS THEN NewSymbolPrices(<< >>)
        ELSE beyond]

\* detectOpportunities, line 70-102: the loops over the feeds as they are
\* now, with the time and the count read at the start of the pass
DetectLoop ==
    /\ arbDet.pc = "loop"
    /\ \E beyond \in PastTheEnd(arbDet.current_time) :
       LET checks == PassChecks(LoopReads(arbDet.sym_count, beyond), 0, arbDet.sym_count,
                                arbDet.current_time)
           st == RunChecks(arb_config_, checks, 1, arbNow,
                           [buffer |-> opportunity_buffer_,
                            detected |-> detected_count_, emitted |-> << >>])
       IN /\ opportunity_buffer_' = st.buffer
          /\ detected_count_' = st.detected
          /\ arbLast' = [op |-> "detect", running |-> TRUE, emitted |-> st.emitted,
                         checks |-> checks, current_time |-> arbDet.current_time,
                         sym_count |-> arbDet.sym_count]
    /\ arbPasses' = arbPasses + 1
    /\ arbDet' = DetIdle
    /\ UNCHANGED <<arb_running_, symbol_index_, symbol_prices_, symbol_count_,
                   processed_prices_, arbNow, arbUpd>>
    /\ ArbCallFrame

\* ArbitrageDetector::getNextOpportunity
GetNextOpportunity ==
    /\ ~PopEmpty(opportunity_buffer_, opportunity_buffer_.tail)
    /\ opportunity_buffer_' = PopStore(opportunity_buffer_, opportunity_buffer_.tail)
    /\ arbLast' = [op |-> "get",
                   opportunity |-> PopRead(opportunity_buffer_, opportunity_buffer_.tail)]
    /\ UNCHANGED <<arb_running_, symbol_index_, symbol_prices_, symbol_count_,
                   detected_count_, processed_prices_, arbNow, arbPasses>>
    /\ ArbFrame

ArbNext ==
    \/ ArbStart
    \/ ArbStop
    \/ ArbTick
    \/ \E u \in FeedUpdates : UpdatePriceFeed(u.exchange, u.symbol, u.quote)
    \/ DetectOpportunities
    \/ GetNextOpportunity

\* the updates two threads make at the same time: three venues of one
\* symbol and one venue of another
ConcUpdates ==
    { [exchange |-> VenueA, symbol |-> SymX, quote |-> Quote(FInt(99), FInt(1), FInt(100), FInt(1))],
      [exchange |-> VenueB, symbol |-> SymX, quote |-> Quote(FInt(101), FInt(1), FInt(102), FInt(1))],
      [exchange |-> VenueC, symbol |-> SymX, quote |-> Quote(FInt(103), FInt(1), FInt(104), FInt(1))],
      [exchange |-> VenueA, symbol |-> SymY, quote |-> Quote(FInt(99), FInt(1), FInt(100), FInt(1))] }

\* the updates made on a table that is nearly full: a new symbol twice
\* over, a new venue of the first recorded symbol twice over, and a venue
\* and a symbol recorded before
FullUpdates ==
    { [exchange |-> e, symbol |-> y, quote |-> Quote(FInt(101), FInt(1), FInt(102), FInt(1))] :
          e \in {VenueA, VenueB, RecordedVenue(1)},
          y \in {SymX, SymY, RecordedSymbol(1), RecordedSymbol(2)} }

\* one thread calling updatePriceFeed on such a table
ArbFullNext ==
    \/ ArbTick
    \/ \E u \in FullUpdates : UpdCallNoted("T1", u.exchange, u.symbol, u.quote)
    \/ UpdSteps("T1")

\* a venue name of 16 characters, "BINANCE_FUTURES1"
VenueLong == <<66, 73, 78, 65, 78, 67, 69, 95, 70, 85, 84, 85, 82, 69, 83, 49>>

\* updates naming a short and a long venue, each with two quotes
NameUpdates ==
    { [exchange |-> e, symbol |-> y, quote |-> q] :
          e \in {VenueA, VenueLong}, y \in {SymX, SymY}, q \in QuotesA }

\* one thread calling updatePriceFeed with such names
ArbNamesNext ==
    \/ ArbTick
    \/ \E u \in NameUpdates : UpdCall("T1", u.exchange, u.symbol, u.quote)
    \/ UpdSteps("T1")

\* updates naming two symbols the table does not hold
OverUpdates ==
    { [exchange |-> VenueA, symbol |-> y, quote |-> Quote(FInt(101), FInt(1), FInt(102), FInt(1))] :
          y \in {SymX, SymY} }

\* one thread inside updatePriceFeed while the detection thread runs
ArbOverNext ==
    \/ ~arb_running_ /\ ArbStart
    \/ ArbTick
    \/ \E u \in OverUpdates : UpdCall("T1", u.exchange, u.symbol, u.quote)
    \/ UpdSteps("T1")
    \/ DetectBegin
    \/ DetectLoop

\* two threads inside updatePriceFeed at once
ArbConcNext ==
    \/ \E t \in Threads, u \in ConcUpdates : UpdCall(t, u.exchange, u.symbol, u.quote)
    \/ \E t \in Threads : UpdSteps(t)

\* the detection thread makes its pass in two steps while another thread
\* updates feeds and the clock advances
ArbStaleNext ==
    \/ ~arb_running_ /\ ArbStart
    \/ ArbTick
    \/ \E u \in FeedUpdates : UpdatePriceFeed(u.exchange, u.symbol, u.quote)
    \/ DetectBegin
    \/ DetectLoop

(***************************************************************************)
(* MarketMakerEngine (market_maker.cpp), calls made one after the other.   *)
(* Doubles are exact numbers; the volatility, a square root of logarithms, *)
(* is computed where it is rational (0) and is otherwise any value of      *)
(* Volatilities.                                                           *)
(***************************************************************************)
\* MarketMakerEngine::MAX_QUOTES
MAX_QUOTES == 20

\* RiskChecker::shouldStop, line 318: the run of losses it compares with
LossRunLimit == 10

\* MarketMakerEngine::PRICE_HISTORY_SIZE
PRICE_HISTORY_SIZE == 1000

\* "BTCUSDT" and "binance", the names generateQuoteLevel writes
SymBTCUSDT == <<66, 84, 67, 85, 83, 68, 84>>
VenueBinance == <<98, 105, 110, 97, 110, 99, 101>>

\* std::max and std::abs on doubles
FMax(a, b) == IF FLess(a, b) THEN b ELSE a
FAbs(a) == IF a.n < 0 THEN [n |-> -a.n, d |-> a.d] ELSE a

\* MMQuote::MMQuote
ZeroQuote ==
    [symbol |-> << >>, exchange |-> << >>, side |-> "BUY", price |-> FInt(0),
     quantity |-> FInt(0), level |-> 0, timestamp_ns |-> 0]

\* MarketSnapshot::MarketSnapshot
ZeroMarket ==
    [bid_price |-> FInt(0), ask_price |-> FInt(0), mid_price |-> FInt(0),
     last_price |-> FInt(0), bid_size |-> FInt(0), ask_size |-> FInt(0),
     volatility |-> FInt(0), timestamp_ns |-> 0]

\* InventorySnapshot::InventorySnapshot
ZeroInventory ==
    [position |-> FInt(0), avg_price |-> FInt(0), unrealized_pnl |-> FInt(0),
     realized_pnl |-> FInt(0), position_value |-> FInt(0), timestamp_ns |-> 0]

\* MarketMakerConfig::MarketMakerConfig, the default configuration
DefaultMMConfig ==
    [base_spread_bps |-> FInt(10), min_spread_bps |-> FInt(5), max_spread_bps |-> FInt(50),
     quote_size |-> FInt(1), quote_levels |-> 3, level_spacing_bps |-> FInt(2),
     max_inventory |-> FInt(100), inventory_skew |-> Frac(1, 2),
     volatility_factor |-> FInt(1), max_position_value |-> FInt(100000),
     stop_loss_percent |-> Frac(2, 100), max_daily_loss |-> FInt(1000)]

\* the configurations the engine is constructed with: the default, and two
\* levels with no spacing between them
MMConfigs ==
    { DefaultMMConfig,
      [DefaultMMConfig EXCEPT !.quote_levels = 2, !.level_spacing_bps = FInt(0)] }

\* books passed to updateMarketData: mid 100 and mid 200
MarketUpdates ==
    { [bid_price |-> FInt(99), bid_size |-> FInt(1), ask_price |-> FInt(101),
       ask_size |-> FInt(1), last_price |-> FInt(100)],
      [bid_price |-> FInt(198), bid_size |-> FInt(1), ask_price |-> FInt(202),
       ask_size |-> FInt(1), last_price |-> FInt(199)] }

\* positions passed to updatePosition: long max_inventory, short half of it
PositionUpdates ==
    { [position |-> FInt(100), avg_price |-> FInt(100)],
      [position |-> FInt(-50), avg_price |-> FInt(100)] }

\* values standing for a volatility that is not rational
Volatilities == { FInt(1), FInt(9) }

NoMMCall == [op |-> "none"]

\* the quoting thread outside generateQuotes; positions is history: the
\* inventory position each generateQuoteLevel call of the batch read
GenIdle ==
    [pc |-> "idle", market |-> ZeroMarket, inventory |-> ZeroInventory, spread |-> FInt(0),
     k |-> 1, positions |-> << >>]

\* the market-data thread outside updateMarketData; written is history:
\* the snapshots its calls have built
MktIdle == [pc |-> "idle", new_state |-> ZeroMarket, written |-> {}]

\* MarketMakerEngine::MarketMakerEngine
\* the configurations whose level loop reaches MAX_QUOTES: ten levels fill
\* current_quotes_ exactly, eleven ask for two quotes more
CapConfigs ==
    { DefaultMMConfig,
      [DefaultMMConfig EXCEPT !.quote_levels = MAX_QUOTES \div 2],
      [DefaultMMConfig EXCEPT !.quote_levels = (MAX_QUOTES \div 2) + 1] }

\* MarketMakerEngine::MarketMakerEngine, for one of the configurations given
MMInitWith(configs) ==
    /\ mm_config_ \in configs
    /\ market_state_ = ZeroMarket
    /\ inventory_state_ = ZeroInventory
    /\ market_version_ = 0
    /\ inventory_version_ = 0
    /\ price_history_ = << >>
    /\ price_index_ = 0
    /\ quote_buffer_ = RingBuffer(MaxQuoteBuffer, ZeroQuote)
    /\ current_quotes_ = << >>
    /\ active_quotes_ = 0
    /\ quotes_generated_ = 0
    /\ market_updates_ = 0
    /\ mm_running_ = FALSE
    /\ mmNow = 0
    /\ mmCalls = 0
    /\ mmLast = NoMMCall
    /\ mmGen = GenIdle
    /\ mmUpd = MktIdle
    /\ daily_loss_ = FInt(0)
    /\ consecutive_losses_ = 0
    /\ rcLog = << >>
    /\ rcLast = NoMMCall

MMInit == MMInitWith(MMConfigs)

\* an engine that is constructed and then left alone
MMQuiet == MMInit /\ mm_config_ = DefaultMMConfig

\* what a call on the engine leaves alone besides the fields named
MMCallFrame == UNCHANGED <<ringVars, omVars, riskVars, arbVars, mm_config_, checkerVars>>

\* the same for a call made in one step while no other call is under way
MMFrame == MMCallFrame /\ UNCHANGED <<mmGen, mmUpd>>

\* the clock of getCurrentTimeNanos advances
MMTick ==
    /\ mmNow < MaxMMTime
    /\ mmNow' = mmNow + 1
    /\ mmLast' = NoMMCall
    /\ UNCHANGED <<market_state_, inventory_state_, market_version_, inventory_version_,
                   price_history_, price_index_, quote_buffer_, current_quotes_,
                   active_quotes_, quotes_generated_, market_updates_, mm_running_, mmCalls>>
    /\ MMFrame

\* MarketMakerEngine::start
MMStart ==
    /\ mm_running_' = TRUE
    /\ mmLast' = NoMMCall
    /\ UNCHANGED <<market_state_, inventory_state_, market_version_, inventory_version_,
                   price_history_, price_index_, quote_buffer_, current_quotes_,
                   active_quotes_, quotes_generated_, market_updates_, mmNow, mmCalls>>
    /\ MMFrame

\* MarketMakerEngine::stop
MMStop ==
    /\ mm_running_' = FALSE
    /\ mmLast' = NoMMCall
    /\ UNCHANGED <<market_state_, inventory_state_, market_version_, inventory_version_,
                   price_history_, price_index_, quote_buffer_, current_quotes_,
                   active_quotes_, quotes_generated_, market_updates_, mmNow, mmCalls>>
    /\ MMFrame

\* price_history_[i], 0.0 where nothing was written
HistoryAt(history, i) == IF i \in DOMAIN history THEN history[i] ELSE FInt(0)

\* calculateVolatility, line 133-140: the price ratios whose logarithms are
\* the returns, by the index of the later price
Returns(history) ==
    LET counted == { i \in DOMAIN history :
                        /\ 1 <= i /\ i < PRICE_HISTORY_SIZE
                        /\ FLess(FInt(0), HistoryAt(history, i))
                        /\ FLess(FInt(0), HistoryAt(history, i - 1)) }
    IN [i \in counted |-> FDiv(history[i], history[i - 1])]

\* MarketMakerEngine::calculateVolatility: the values it can return. Fewer
\* than two returns give 0.0; equal returns have standard deviation 0
calculateVolatility(history) ==
    LET rets == Returns(history)
    IN IF Cardinality(DOMAIN rets) < 2 THEN { FInt(0) }
       ELSE IF \A i, j \in DOMAIN rets : rets[i] = rets[j] THEN { FInt(0) }
       ELSE Volatilities

\* MarketMakerEngine::updateMarketData
UpdateMarketData(bid_price, bid_size, ask_price, ask_size, last_price) ==
    /\ mmCalls < MaxMMCalls
    /\ mmCalls' = mmCalls + 1
    /\ LET mid_price == FDiv(FAdd(bid_price, ask_price), FInt(2))
           idx == price_index_ % PRICE_HISTORY_SIZE
           history == MapPut(price_history_, idx, mid_price)
       IN /\ price_index_' = price_index_ + 1
          /\ price_history_' = history
          /\ \E volatility \in calculateVolatility(history) :
                market_state_' =
                    [bid_price |-> bid_price, ask_price |-> ask_price,
                     mid_price |-> mid_price, last_price |-> last_price,
                     bid_size |-> bid_size, ask_size |-> ask_size,
                     volatility |-> volatility, timestamp_ns |-> mmNow]
    /\ market_version_' = market_version_ + 1
    /\ market_updates_' = market_updates_ + 1
    /\ mmLast' = [op |-> "market"]
    /\ UNCHANGED <<inventory_state_, inventory_version_, quote_buffer_, current_quotes_,
                   active_quotes_, quotes_generated_, mm_running_, mmNow>>
    /\ MMFrame

\* MarketMakerEngine::updatePosition
MMUpdatePosition(position, avg_price) ==
    /\ mmCalls < MaxMMCalls
    /\ mmCalls' = mmCalls + 1
    /\ inventory_state_' =
           [position |-> position, avg_price |-> avg_price,
            unrealized_pnl |->
                IF FLess(FInt(0), market_state_.mid_price)
                THEN FMul(position, FSub(market_state_.mid_price, avg_price))
                ELSE FInt(0),
            realized_pnl |-> FInt(0),
            position_value |-> FMul(position, avg_price),
            timestamp_ns |-> mmNow]
    /\ inventory_version_' = inventory_version_ + 1
    /\ mmLast' = [op |-> "position"]
    /\ UNCHANGED <<market_state_, market_version_, price_history_, price_index_,
                   quote_buffer_, current_quotes_, active_quotes_, quotes_generated_,
                   market_updates_, mm_running_, mmNow>>
    /\ MMFrame

Bps(x) == FDiv(x, FInt(10000))

\* MarketMakerEngine::getInventorySkew
getInventorySkew(cfg, position) ==
    FAdd(FInt(1), FMul(cfg.inventory_skew, FAbs(FDiv(position, cfg.max_inventory))))

\* MarketMakerEngine::calculateSpread
calculateSpread(cfg, market, inventory) ==
    LET base_spread == Bps(cfg.base_spread_bps)
        vol_factor == FAdd(FInt(1), FMul(market.volatility, cfg.volatility_factor))
        skew_factor == getInventorySkew(cfg, inventory.position)
        spread == FMul(FMul(base_spread, vol_factor), skew_factor)
        min_spread == Bps(cfg.min_spread_bps)
        max_spread == Bps(cfg.max_spread_bps)
    IN FMax(min_spread, FMin(max_spread, spread))

\* a plausible slip: the spacing subtracted, so that deeper levels are tighter
LevelSpread_Narrowing(cfg, spread, level) ==
    FMul(spread, FSub(FInt(1), FDiv(FMul(FInt(level), cfg.level_spacing_bps), FInt(10000))))

\* generateQuoteLevel, line 179: the spread of a level
LevelSpread(cfg, spread, level) ==
    FMul(spread, FAdd(FInt(1), FDiv(FMul(FInt(level), cfg.level_spacing_bps), FInt(10000))))

\* generateQuoteLevel, line 181-205: the price of a quote
QuotePrice(cfg, side, mid_price, spread, level, inventory) ==
    LET level_spread == LevelSpread(cfg, spread, level)
        price == IF side = "BUY" THEN FMul(mid_price, FSub(FInt(1), level_spread))
                 ELSE FMul(mid_price, FAdd(FInt(1), level_spread))
        inventory_ratio == FDiv(inventory.position, cfg.max_inventory)
        skew == FMul(FMul(FAbs(inventory_ratio), cfg.inventory_skew), Frac(1, 2))
        up == FMul(price, FAdd(FInt(1), skew))
        down == FMul(price, FSub(FInt(1), skew))
    IN IF FLess(FInt(0), inventory_ratio)
       THEN IF side = "SELL" THEN down ELSE up
       ELSE IF FLess(inventory_ratio, FInt(0))
       THEN IF side = "BUY" THEN up ELSE down
       ELSE price

\* generateQuoteLevel, line 170-205: the quote written into its slot
NewQuote(cfg, symbol, side, mid_price, spread, level, inventory, timestamp) ==
    [symbol |-> StoreName(symbol), exchange |-> StoreName(VenueBinance), side |-> side,
     price |-> QuotePrice(cfg, side, mid_price, spread, level, inventory),
     quantity |-> cfg.quote_size, level |-> level, timestamp_ns |-> timestamp]

\* generateQuotes, line 78-84: call k of generateQuoteLevel in a batch, the
\* bid of a level before its ask
\* a plausible slip: the Sell quote of a level generated first
LevelCall_SellFirst(k) == [side |-> IF k % 2 = 1 THEN "SELL" ELSE "BUY", level |-> (k - 1) \div 2]

LevelCall(k) == [side |-> IF k % 2 = 1 THEN "BUY" ELSE "SELL", level |-> (k - 1) \div 2]

\* generateQuoteLevel, line 164-168: call k takes slot k - 1 while slots are
\* left and is dropped afterwards; the number of slots taken by a batch
ActiveAfter(cfg) == Min(2 * cfg.quote_levels, MAX_QUOTES)

\* MarketMakerEngine::generateQuoteLevel over the calls of a batch: the
\* quote array afterwards (slots not written keep their quote)
GenerateLevels(cfg, quotes, mid_price, spread, inventory, timestamp) ==
    LET active == ActiveAfter(cfg)
        n == IF Len(quotes) < active THEN active ELSE Len(quotes)
    IN [k \in 1 .. n |->
           IF k <= active
           THEN NewQuote(cfg, SymBTCUSDT, LevelCall(k).side, mid_price, spread,
                         LevelCall(k).level, inventory, timestamp)
           ELSE quotes[k]]

\* generateQuotes, line 87-91: quotes i .. quote_count - 1 pushed in turn,
\* each one counted
RECURSIVE PushQuotes(_, _, _, _)
PushQuotes(quotes, i, quote_count, st) ==
    IF i >= quote_count THEN st
    ELSE LET q == st.buffer
             next_head == NextIndex(q, q.head)
             full == PushFull(q, next_head)
         IN PushQuotes(quotes, i + 1, quote_count,
                [buffer |-> IF full THEN q
                            ELSE PushStore(PushWrite(q, q.head, quotes[i + 1]), next_head),
                 generated |-> st.generated + 1,
                 emitted |-> IF full THEN st.emitted ELSE Append(st.emitted, quotes[i + 1])])

\* generateQuotes, line 67: no market data
NoMarketData(market) ==
    \/ FLeq(market.mid_price, FInt(0))
    \/ FLeq(market.bid_price, FInt(0))
    \/ FLeq(market.ask_price, FInt(0))

\* MarketMakerEngine::generateQuotes, one call
GenerateQuotes ==
    /\ mmCalls < MaxMMCalls
    /\ mmCalls' = mmCalls + 1
    /\ LET market == market_state_
           inventory == inventory_state_
       IN IF ~mm_running_ \/ NoMarketData(market)
          THEN /\ mmLast' = [op |-> "generate", ran |-> FALSE, market |-> market,
                             inventory |-> inventory, emitted |-> << >>]
               /\ UNCHANGED <<quote_buffer_, current_quotes_, active_quotes_,
                              quotes_generated_>>
          ELSE \E spread \in { calculateSpread(mm_config_, market, inventory) } :
               LET quotes == GenerateLevels(mm_config_, current_quotes_, market.mid_price,
                                            spread, inventory, mmNow)
                   quote_count == ActiveAfter(mm_config_)
                   st == PushQuotes(current_quotes_', 0, quote_count,
                                    [buffer |-> quote_buffer_,
                                     generated |-> quotes_generated_, emitted |-> << >>])
               IN /\ current_quotes_' = quotes
                  /\ active_quotes_' = quote_count
                  /\ quote_buffer_' = st.buffer
                  /\ quotes_generated_' = st.generated
                  /\ mmLast' = [op |-> "generate", ran |-> TRUE, market |-> market,
                                inventory |-> inventory, emitted |-> st.emitted]
    /\ UNCHANGED <<market_state_, inventory_state_, market_version_, inventory_version_,
                   price_history_, price_index_, market_updates_, mm_running_, mmNow>>
    /\ MMFrame

\* MarketMakerEngine::getNextQuote
GetNextQuote ==
    /\ mmCalls < MaxMMCalls
    /\ mmCalls' = mmCalls + 1
    /\ IF PopEmpty(quote_buffer_, quote_buffer_.tail)
       THEN /\ mmLast' = [op |-> "get", ok |-> FALSE]
            /\ UNCHANGED quote_buffer_
       ELSE /\ quote_buffer_' = PopStore(quote_buffer_, quote_buffer_.tail)
            /\ mmLast' = [op |-> "get", ok |-> TRUE,
                          quote |-> PopRead(quote_buffer_, quote_buffer_.tail)]
    /\ UNCHANGED <<market_state_, inventory_state_, market_version_, inventory_version_,
                   price_history_, price_index_, current_quotes_, active_quotes_,
                   quotes_generated_, market_updates_, mm_running_, mmNow>>
    /\ MMFrame

\* updateMarketData, line 21-35: the new snapshot is built, the price
\* history and its index are updated
MktBuild(bid_price, bid_size, ask_price, ask_size, last_price) ==
    /\ mmUpd.pc = "idle"
    /\ mmCalls < MaxMMCalls
    /\ mmCalls' = mmCalls + 1
    /\ LET mid_price == FDiv(FAdd(bid_price, ask_price), FInt(2))
           idx == price_index_ % PRICE_HISTORY_SIZE
           history == MapPut(price_history_, idx, mid_price)
       IN /\ price_index_' = price_index_ + 1
          /\ price_history_' = history
          /\ \E volatility \in calculateVolatility(history) :
                \E new_state \in { [bid_price |-> bid_price, ask_price |-> ask_price,
                                     mid_price |-> mid_price, last_price |-> last_price,
                                     bid_size |-> bid_size, ask_size |-> ask_size,
                                     volatility |-> volatility, timestamp_ns |-> mmNow] } :
                    mmUpd' = [pc |-> "head", new_state |-> new_state,
                              written |-> mmUpd.written \cup {new_state}]
    /\ UNCHANGED <<market_state_, inventory_state_, market_version_, inventory_version_,
                   quote_buffer_, current_quotes_, active_quotes_, quotes_generated_,
                   market_updates_, mm_running_, mmNow, mmLast, mmGen>>
    /\ MMCallFrame

\* updateMarketData, line 38: market_state_ = new_state is a plain copy of
\* eight fields; here the prices are stored first
MktStoreHead ==
    /\ mmUpd.pc = "head"
    /\ market_state_' = [market_state_ EXCEPT !.bid_price = mmUpd.new_state.bid_price,
                                               !.ask_price = mmUpd.new_state.ask_price,
                                               !.mid_price = mmUpd.new_state.mid_price,
                                               !.last_price = mmUpd.new_state.last_price]
    /\ mmUpd' = [mmUpd EXCEPT !.pc = "tail"]
    /\ UNCHANGED <<inventory_state_, market_version_, inventory_version_, price_history_,
                   price_index_, quote_buffer_, current_quotes_, active_quotes_,
                   quotes_generated_, market_updates_, mm_running_, mmNow, mmCalls, mmLast,
                   mmGen>>
    /\ MMCallFrame

\* updateMarketData, line 38-40: the rest of the copy, then the counters
MktStoreTail ==
    /\ mmUpd.pc = "tail"
    /\ market_state_' = mmUpd.new_state
    /\ market_version_' = market_version_ + 1
    /\ market_updates_' = market_updates_ + 1
    /\ mmUpd' = [mmUpd EXCEPT !.pc = "idle"]
    /\ UNCHANGED <<inventory_state_, inventory_version_, price_history_, price_index_,
                   quote_buffer_, current_quotes_, active_quotes_, quotes_generated_,
                   mm_running_, mmNow, mmCalls, mmLast, mmGen>>
    /\ MMCallFrame

\* generateQuotes, line 61-75: the flag is tested, both snapshots are
\* copied (no version is read), the spread is computed, active_quotes_ is
\* cleared
GenBegin ==
    /\ mmGen.pc = "idle"
    /\ mmCalls < MaxMMCalls
    /\ mmCalls' = mmCalls + 1
    /\ IF ~mm_running_ \/ NoMarketData(market_state_)
       THEN /\ mmLast' = [op |-> "generate", ran |-> FALSE, market |-> market_state_,
                          inventory |-> inventory_state_, emitted |-> << >>]
            /\ UNCHANGED <<mmGen, active_quotes_>>
       ELSE /\ \E spread \in { calculateSpread(mm_config_, market_state_, inventory_state_) } :
                 mmGen' = [pc |-> "level", market |-> market_state_,
                           inventory |-> inventory_state_, spread |-> spread, k |-> 1,
                           positions |-> << >>]
            /\ active_quotes_' = 0
            /\ mmLast' = NoMMCall
    /\ UNCHANGED <<market_state_, inventory_state_, market_version_, inventory_version_,
                   price_history_, price_index_, quote_buffer_, current_quotes_,
                   quotes_generated_, market_updates_, mm_running_, mmNow, mmUpd>>
    /\ MMCallFrame

\* generateQuotes, line 78-84, one call of generateQuoteLevel (line 162-206):
\* the slot is taken, the quote is priced with the batch's mid price and
\* spread and with inventory_state_ as it is now (line 188)
GenLevel ==
    /\ mmGen.pc = "level"
    /\ mmGen.k <= 2 * mm_config_.quote_levels
    /\ IF active_quotes_ >= MAX_QUOTES
       THEN UNCHANGED <<current_quotes_, active_quotes_>>
       ELSE /\ active_quotes_' = active_quotes_ + 1
            /\ current_quotes_' =
                   [i \in DOMAIN current_quotes_ \cup {active_quotes_ + 1} |->
                       IF i = active_quotes_ + 1
                       THEN NewQuote(mm_config_, SymBTCUSDT, LevelCall(mmGen.k).side,
                                     mmGen.market.mid_price, mmGen.spread,
                                     LevelCall(mmGen.k).level, inventory_state_, mmNow)
                       ELSE current_quotes_[i]]
    /\ mmGen' = [mmGen EXCEPT !.k = @ + 1,
                              !.positions = Append(@, inventory_state_.position)]
    /\ UNCHANGED <<market_state_, inventory_state_, market_version_, inventory_version_,
                   price_history_, price_index_, quote_buffer_, quotes_generated_,
                   market_updates_, mm_running_, mmNow, mmCalls, mmLast, mmUpd>>
    /\ MMCallFrame

\* generateQuotes, line 86-91: the quotes of the batch are pushed
GenPush ==
    /\ mmGen.pc = "level"
    /\ mmGen.k > 2 * mm_config_.quote_levels
    /\ LET st == PushQuotes(current_quotes_, 0, active_quotes_,
                            [buffer |-> quote_buffer_,
                             generated |-> quotes_generated_, emitted |-> << >>])
       IN /\ quote_buffer_' = st.buffer
          /\ quotes_generated_' = st.generated
          /\ mmLast' = [op |-> "generate", ran |-> TRUE, market |-> mmGen.market,
                         inventory |-> mmGen.inventory, emitted |-> st.emitted]
    /\ mmGen' = [mmGen EXCEPT !.pc = "idle"]
    /\ UNCHANGED <<market_state_, inventory_state_, market_version_, inventory_version_,
                   price_history_, price_index_, current_quotes_, active_quotes_,
                   market_updates_, mm_running_, mmNow, mmCalls, mmUpd>>
    /\ MMCallFrame

\* the quoting thread, the market-data thread and a thread reporting
\* positions run side by side on a started engine
MMConcNext ==
    \/ ~mm_running_ /\ MMStart
    \/ \E u \in MarketUpdates :
           MktBuild(u.bid_price, u.bid_size, u.ask_price, u.ask_size, u.last_price)
    \/ MktStoreHead
    \/ MktStoreTail
    \/ \E u \in PositionUpdates : MMUpdatePosition(u.position, u.avg_price)
    \/ GenBegin
    \/ GenLevel
    \/ GenPush

\* what a call on the RiskChecker leaves alone besides its own fields
CheckerFrame == UNCHANGED <<ringVars, omVars, riskVars, arbVars, engineVars>>

\* RiskChecker::updatePnL
UpdatePnL(pnl) ==
    /\ Len(rcLog) < MaxPnLUpdates
    /\ daily_loss_' = FAdd(daily_loss_, pnl)
    /\ consecutive_losses_' = IF FLess(pnl, FInt(0)) THEN consecutive_losses_ + 1 ELSE 0
    /\ rcLog' = Append(rcLog, pnl)
    /\ rcLast' = [op |-> "pnl"]
    /\ CheckerFrame

\* shouldStop, line 307: daily_pnl < -max_daily_loss
DailyLossHit(cfg, daily_pnl) == FLess(daily_pnl, FSub(FInt(0), cfg.max_daily_loss))

\* shouldStop, line 312-313: unrealized_pnl / (position_value + 1e-10) <
\* -stop_loss_percent, with the division taken to the other side; the values
\* of the model are multiples of 1/100, which the 1e-10 does not move across
\* the comparison: it only makes the divisor positive when position_value is 0
StopLossHit(cfg, inventory) ==
    LET limit == FSub(FInt(0), FMul(cfg.stop_loss_percent, inventory.position_value))
    IN IF FLess(inventory.position_value, FInt(0))
       THEN FLess(limit, inventory.unrealized_pnl)
       ELSE FLess(inventory.unrealized_pnl, limit)

\* shouldStop, line 318: consecutive_losses_.load() > 10
LossRunHit(losses) == losses > LossRunLimit

\* RiskChecker::shouldStop
ShouldStop(inventory, daily_pnl) ==
    /\ rcLast' = [op |-> "stop", inventory |-> inventory, daily_pnl |-> daily_pnl,
                  result |-> \/ DailyLossHit(mm_config_, daily_pnl)
                             \/ StopLossHit(mm_config_, inventory)
                             \/ LossRunHit(consecutive_losses_)]
    /\ UNCHANGED <<daily_loss_, consecutive_losses_, rcLog>>
    /\ CheckerFrame

\* the PnL of the fills recorded: a loss and a fill that breaks even
PnLs == { FInt(-1), FInt(0) }

\* the inventories and daily PnL should_stop is asked about: flat or three
\* percent under water, no loss on the day or one above max_daily_loss
StopInventories ==
    { ZeroInventory,
      [ZeroInventory EXCEPT !.position = FInt(1), !.avg_price = FInt(100),
                            !.unrealized_pnl = FInt(-3), !.position_value = FInt(100)] }

StopDailyPnLs == { FInt(0), FInt(-1001) }

CheckerNext ==
    \/ \E pnl \in PnLs : UpdatePnL(pnl)
    \/ \E inventory \in StopInventories : \E daily_pnl \in StopDailyPnLs :
           ShouldStop(inventory, daily_pnl)

\* one caller: generateQuotes step by step, the other calls of the engine
\* between two of its runs
MMCapNext ==
    \/ ~mm_running_ /\ MMStart
    \/ mmGen.pc = "idle" /\ MMTick
    \/ /\ mmGen.pc = "idle"
       /\ \E u \in MarketUpdates :
             UpdateMarketData(u.bid_price, u.bid_size, u.ask_price, u.ask_size, u.last_price)
    \/ /\ mmGen.pc = "idle"
       /\ \E u \in PositionUpdates : MMUpdatePosition(u.position, u.avg_price)
    \/ GenBegin
    \/ GenLevel
    \/ GenPush
    \/ mmGen.pc = "idle" /\ GetNextQuote

MMNext ==
    \/ MMStart
    \/ MMStop
    \/ MMTick
    \/ \E u \in MarketUpdates :
           UpdateMarketData(u.bid_price, u.bid_size, u.ask_price, u.ask_size, u.last_price)
    \/ \E u \in PositionUpdates : MMUpdatePosition(u.position, u.avg_price)
    \/ GenerateQuotes
    \/ GetNextQuote

(***************************************************************************)
(* Specifications.                                                         *)
(***************************************************************************)
\* the ring buffer alone: one producer, one consumer
InitRing == RingInit /\ OMInit(2, 1) /\ RiskInit /\ ArbQuiet /\ MMQuiet

SpecRing == InitRing /\ [][RingNext]_vars

\* the ring buffer with a thread calling size()
InitRingSize == RingInit /\ OMInit(2, 1) /\ RiskInit /\ ArbQuiet /\ MMQuiet

SpecRingSize == InitRingSize /\ [][RingSizeNext]_vars

\* the risk engine alone, one caller
InitRisk == RingInit /\ ringReq = 1 /\ OMInit(2, 1) /\ RiskInit /\ ArbQuiet /\ MMQuiet

SpecRisk == InitRisk /\ [][RiskNext]_vars

\* the risk engine's open-order counter under concurrent callers
InitRiskCount == RingInit /\ ringReq = 1 /\ OMInit(2, 1) /\ RiskInit /\ ArbQuiet /\ MMQuiet

SpecRiskCount == InitRiskCount /\ [][RiskCountNext]_vars

\* updatePosition called by two threads for two symbols
InitRiskConc == RingInit /\ ringReq = 1 /\ OMInit(2, 1) /\ RiskInit /\ ArbQuiet /\ MMQuiet

SpecRiskConc == InitRiskConc /\ [][RiskConcNext]_vars

\* updatePosition called by one thread for one symbol
InitRiskTrip == RingInit /\ ringReq = 1 /\ OMInit(2, 1) /\ RiskInit /\ ArbQuiet /\ MMQuiet

SpecRiskTrip == InitRiskTrip /\ [][RiskTripNext]_vars

\* new orders a client may submit, tagged with the number of the call: a
\* buy on the spot venue or a sell on the futures venue
ClientOrders ==
    { NewOrder(CallsStarted + 1, "BINANCE_SPOT", "BUY", 10, 1),
      NewOrder(CallsStarted + 1, "BINANCE_FUTURES", "SELL", 20, 2) }

\* One thread submits new orders and cancels the first ID the manager
\* assigns, on either venue, while the dispatch worker, started at some
\* point, runs and the clock advances.  Rings of one usable slot and a rate of two orders per
\* second make both rejections happen.
OMNext ==
    \/ \E order \in ClientOrders : CallsStarted < MaxSubmits /\ SubmitOrder("T1", order)
    \/ \E v \in Venues :
           CallsStarted < MaxSubmits /\ CancelOrder("T1", FirstOrderId, v)
    \/ SubmitSteps("T1")
    \/ WorkerSteps
    \/ ~running_ /\ Start
    \/ Tick

InitOM == RingInit /\ ringReq = 1 /\ RiskInit /\ OMInit(2, 2) /\ ArbQuiet /\ MMQuiet

SpecOM == InitOM /\ [][OMNext]_vars

\* the arbitrage detector alone: one thread updating feeds, detecting and
\* consuming
InitArb == RingInit /\ ringReq = 1 /\ OMInit(2, 1) /\ RiskInit /\ ArbInit /\ MMQuiet

SpecArb == InitArb /\ [][ArbNext]_vars

\* the detection pass running beside the feed updates
InitArbStale == RingInit /\ ringReq = 1 /\ OMInit(2, 1) /\ RiskInit /\ ArbQuiet /\ MMQuiet

SpecArbStale == InitArbStale /\ [][ArbStaleNext]_vars

\* the feed table under concurrent updates, empty at first or one symbol
\* short of full
InitArbConc ==
    /\ RingInit /\ ringReq = 1 /\ OMInit(2, 1) /\ RiskInit /\ MMQuiet
    /\ \E symbols \in {0, ARB_MAX_SYMBOLS - 1} : ArbInitRecorded(symbols, 1)

SpecArbConc == InitArbConc /\ [][ArbConcNext]_vars

\* updatePriceFeed on a detector one symbol short of MAX_SYMBOLS whose
\* first symbol is one venue short of MAX_EXCHANGES
InitArbFull ==
    /\ RingInit /\ ringReq = 1 /\ OMInit(2, 1) /\ RiskInit /\ MMQuiet
    /\ ArbInitRecorded(ARB_MAX_SYMBOLS - 1, MAX_EXCHANGES - 1)

SpecArbFull == InitArbFull /\ [][ArbFullNext]_vars

\* updatePriceFeed and a detection pass on a detector one symbol short of
\* MAX_SYMBOLS
InitArbOver ==
    /\ RingInit /\ ringReq = 1 /\ OMInit(2, 1) /\ RiskInit /\ MMQuiet
    /\ ArbInitRecorded(ARB_MAX_SYMBOLS - 1, 2)

SpecArbOver == InitArbOver /\ [][ArbOverNext]_vars

\* updatePriceFeed called by one thread with short and long venue names,
\* on a detector with room for one more symbol
InitArbNames ==
    /\ RingInit /\ ringReq = 1 /\ OMInit(2, 1) /\ RiskInit /\ MMQuiet
    /\ ArbInitRecorded(ARB_MAX_SYMBOLS - 1, 1)

SpecArbNames == InitArbNames /\ [][ArbNamesNext]_vars

\* the RiskChecker of the market maker, single caller
InitChecker == RingInit /\ ringReq = 1 /\ OMInit(2, 1) /\ RiskInit /\ ArbQuiet /\ MMQuiet

SpecChecker == InitChecker /\ [][CheckerNext]_vars

\* the market maker with configurations that reach MAX_QUOTES
InitMMCap == RingInit /\ ringReq = 1 /\ OMInit(2, 1) /\ RiskInit /\ ArbQuiet /\ MMInitWith(CapConfigs)

SpecMMCap == InitMMCap /\ [][MMCapNext]_vars

\* the market maker with its three callers running side by side
InitMMConc == RingInit /\ ringReq = 1 /\ OMInit(2, 1) /\ RiskInit /\ ArbQuiet /\ MMInit

SpecMMConc == InitMMConc /\ [][MMConcNext]_vars

\* the order SpecOMUpd's client submits, and the records passed to
\* UpdateOrder for the first ID: the order filled, and the order open again
\* with more executed than ordered
UpdOrder == NewOrder(CallsStarted + 1, "BINANCE_SPOT", "BUY", 10, 1)

OrderUpdates ==
    { [NewOrder(1, "BINANCE_SPOT", "BUY", 10, 1) EXCEPT
           !.id = FirstOrderId, !.executed_quantity = 1, !.status = "FILLED"],
      [NewOrder(1, "BINANCE_SPOT", "BUY", 10, 1) EXCEPT
           !.id = FirstOrderId, !.executed_quantity = 2, !.status = "PARTIALLY_FILLED"] }

\* One thread submits an order and cancels the first ID while another
\* updates the record of the first ID; the worker, started at some point,
\* dispatches and the clock advances.  A ring of one usable slot and a rate
\* of one order per second make both rejections happen.
OMUpdNext ==
    \/ CallsStarted < MaxSubmits /\ SubmitOrder("T1", UpdOrder)
    \/ CallsStarted < MaxSubmits /\ CancelOrder("T1", FirstOrderId, "BINANCE_SPOT")
    \/ SubmitSteps("T1")
    \/ WorkerSteps
    \/ ~running_ /\ Start
    \/ Tick
    \/ \E order \in OrderUpdates : Len(updLog) < MaxUpdates /\ UpdateOrder(order)

\* UpdateOrder calls for the first order admitted: a fill reported with the
\* venue it was submitted on, and one reported with the other venue
VenueUpdates ==
    { [NewOrder(1, v, "BUY", 10, 1) EXCEPT
           !.id = FirstOrderId, !.executed_quantity = 1, !.status = "FILLED"] : v \in Venues }

\* one thread submitting and cancelling, the worker, and such updates
OMIdxNext ==
    \/ CallsStarted < MaxSubmits /\ SubmitOrder("T1", UpdOrder)
    \/ CallsStarted < MaxSubmits /\ CancelOrder("T1", FirstOrderId, "BINANCE_SPOT")
    \/ SubmitSteps("T1")
    \/ WorkerSteps
    \/ ~running_ /\ Start
    \/ Tick
    \/ \E order \in VenueUpdates : Len(updLog) < MaxUpdates /\ UpdateOrder(order)

InitOMIdx == RingInit /\ ringReq = 1 /\ RiskInit /\ OMInit(2, 1) /\ ArbQuiet /\ MMQuiet

SpecOMIdx == InitOMIdx /\ [][OMIdxNext]_vars

InitOMUpd == RingInit /\ ringReq = 1 /\ RiskInit /\ OMInit(2, 1) /\ ArbQuiet /\ MMQuiet

SpecOMUpd == InitOMUpd /\ [][OMUpdNext]_vars

\* One thread submits new orders on either venue while the dispatch worker,
\* started at some point, runs and the clock advances.  Rings of three
\* usable slots let several orders of one venue wait together; a rate of
\* two orders per second makes a third call within the same second fail.
OMFifoNext ==
    \/ \E order \in ClientOrders : CallsStarted < MaxFifoSubmits /\ SubmitOrder("T1", order)
    \/ SubmitSteps("T1")
    \/ WorkerSteps
    \/ ~running_ /\ Start
    \/ Tick

InitOMFifo == RingInit /\ ringReq = 1 /\ RiskInit /\ OMInit(4, 2) /\ ArbQuiet /\ MMQuiet

SpecOMFifo == InitOMFifo /\ [][OMFifoNext]_vars

\* the same system with fewer calls and a rate of one order per second
OMFairNext ==
    \/ \E order \in ClientOrders : CallsStarted < MaxFairSubmits /\ SubmitOrder("T1", order)
    \/ SubmitSteps("T1")
    \/ WorkerSteps
    \/ ~running_ /\ Start
    \/ Tick

\* the dispatch worker scheduled fairly: a step of ProcessingLoop that
\* stays possible is eventually taken
InitOMFair == RingInit /\ ringReq = 1 /\ RiskInit /\ OMInit(4, 1) /\ ArbQuiet /\ MMQuiet

SpecOMFair == InitOMFair /\ [][OMFairNext]_vars /\ WF_vars(WorkerSteps)

\* the market maker engine, calls made one after the other
InitMM == RingInit /\ ringReq = 1 /\ OMInit(2, 1) /\ RiskInit /\ ArbQuiet /\ MMInit

SpecMM == InitMM /\ [][MMNext]_vars

\* the order the client of SpecOMRate submits, for either venue
PlainOrders ==
    { NewOrder(CallsStarted + 1, v, "BUY", 10, 1) : v \in Venues }

\* the order the client of SpecOMLife submits
LifeOrder == NewOrder(CallsStarted + 1, "BINANCE_SPOT", "BUY", 10, 1)

\* The control thread calls Start and Stop in any order, one call after the
\* other, while a client submits orders and the worker dispatches them.
OMLifeNext ==
    \/ CallsStarted < MaxLifeSubmits /\ SubmitOrder("T1", LifeOrder)
    \/ SubmitSteps("T1")
    \/ WorkerSteps
    \/ Len(ctlLog) < MaxLifecycle /\ Start
    \/ Len(ctlLog) < MaxLifecycle /\ Stop
    \/ StopJoined
    \/ Tick

InitOMLife == RingInit /\ ringReq = 1 /\ RiskInit /\ OMInit(2, MaxLifeSubmits) /\ ArbQuiet /\ MMQuiet

SpecOMLife == InitOMLife /\ [][OMLifeNext]_vars

\* One thread submits new orders to a manager whose rings never fill; the
\* clock advances.
OMRateNext ==
    \/ \E order \in PlainOrders : CallsStarted < MaxRateCalls /\ SubmitOrder("T1", order)
    \/ SubmitSteps("T1")
    \/ Tick

InitOMRate ==
    /\ RingInit /\ ringReq = 1 /\ RiskInit /\ ArbQuiet /\ MMQuiet
    /\ \E rate \in 1 .. MaxRate : OMInit(MaxRateCalls + 1, rate)

SpecOMRate == InitOMRate /\ [][OMRateNext]_vars

\* orders the concurrent clients submit: all for one venue
ConcOrders ==
    { NewOrder(CallsStarted + 1, "BINANCE_SPOT", pl.side, pl.price, pl.quantity) :
          pl \in Payloads }

\* Two threads submit orders for the same venue while the worker, started
\* once, dispatches and the clock advances.  The calls stay below the rate
\* limit and below the capacity of the ring.
OMConcNext ==
    \/ \E t \in Threads, order \in ConcOrders :
           CallsStarted < MaxConcCalls /\ SubmitOrder(t, order)
    \/ \E t \in Threads : SubmitSteps(t)
    \/ WorkerSteps
    \/ ~running_ /\ Start
    \/ Tick

\* the venue each thread submits on: one producer per venue
VenueOf(t) == IF t = "T1" THEN "BINANCE_SPOT" ELSE "BINANCE_FUTURES"

\* two threads calling SubmitOrder at the same time, each on its own venue
OMGateNext ==
    \/ \E t \in Threads :
           /\ CallsStarted < MaxConcCalls
           /\ SubmitOrder(t, NewOrder(CallsStarted + 1, VenueOf(t), "BUY", 10, 1))
    \/ \E t \in Threads : SubmitSteps(t)
    \/ WorkerSteps
    \/ ~running_ /\ Start
    \/ Tick

InitOMGate == RingInit /\ ringReq = 1 /\ RiskInit /\ ArbQuiet /\ MMQuiet /\ OMInit(2, 1)

SpecOMGate == InitOMGate /\ [][OMGateNext]_vars

InitOMConc ==
    /\ RingInit /\ ringReq = 1 /\ RiskInit /\ ArbQuiet /\ MMQuiet
    /\ OMInit(MaxConcCalls + 1, MaxConcCalls + 1)

SpecOMConc == InitOMConc /\ [][OMConcNext]_vars

(***************************************************************************)
(* Properties of the ring buffer.                                          *)
(***************************************************************************)
IsPrefix(s, t) == Len(s) <= Len(t) /\ SubSeq(t, 1, Len(s)) = s

Items(log) == [i \in 1 .. Len(log) |-> log[i].item]

\* items accepted by successful pushes, in order
RingPushed == Items(SelectSeq(ringLog, LAMBDA e : e.op = "push" /\ e.ok))

\* items returned by successful pops, in order
RingPopped == Items(SelectSeq(ringLog, LAMBDA e : e.op = "pop" /\ e.ok))

RingQuiet == rProd.pc = "idle" /\ rCons.pc = "idle"

\* C1: with one producer and one consumer, under every interleaving the
\* items returned by successful pops are a prefix of the items accepted by
\* successful pushes (no loss, duplication or reordering), and whenever no
\* call is in flight the accepted items not yet popped are exactly the
\* size() items still queued, so n pushes followed by n pops return the
\* same n items in order.
C1_FifoPrefix ==
    /\ IsPrefix(RingPopped, RingPushed)
    /\ RingQuiet => Len(RingPushed) = Len(RingPopped) + RingSize(ring)
    /\ rCons.pc = "store" =>
           rCons.item = RingPushed[Len(RingPopped) + 1]

\* C1 witness: more items than slots went through a ring (wrap-around)
C1_Witness ==
    /\ RingQuiet
    /\ ring.capacity_ = 2
    /\ Len(RingPopped) >= 3
    /\ RingPopped = RingPushed

\* the producer's step that returns false from push
PushFailStep == rProd.pc = "check" /\ rProd'.pc = "idle"
\* the producer's step that passes the full test
PushPassStep == rProd.pc = "check" /\ rProd'.pc = "write"
\* the consumer's step that returns false from pop
PopFailStep == rCons.pc = "check" /\ rCons'.pc = "idle"
\* the consumer's step that passes the empty test
PopPassStep == rCons.pc = "check" /\ rCons'.pc = "read"

\* C2: in every reachable state 0 <= size() <= C-1; push returns false
\* exactly when size is C-1 and pop returns false exactly when size is 0
\* (size taken at the step that decides); a failed push or pop leaves head,
\* tail and every slot unchanged.
C2_SizeAndFailure ==
    /\ [](RingSize(ring) \in 0 .. (ring.capacity_ - 1))
    /\ [][ /\ PushFailStep => (RingSize(ring) = ring.capacity_ - 1 /\ ring' = ring)
           /\ PushPassStep => RingSize(ring) # ring.capacity_ - 1
           /\ PopFailStep => (RingSize(ring) = 0 /\ ring' = ring)
           /\ PopPassStep => RingSize(ring) # 0 ]_vars

\* C2 witness: a push failed on a full ring of capacity 4 and a pop failed
C2_Witness ==
    /\ ring.capacity_ = 4
    /\ \E i \in 1 .. Len(ringLog) : ringLog[i].op = "push" /\ ~ringLog[i].ok
    /\ \E i \in 1 .. Len(ringLog) : ringLog[i].op = "pop" /\ ~ringLog[i].ok

Ops(log) == [i \in 1 .. Len(log) |-> log[i].op]
Oks(log) == [i \in 1 .. Len(log) |-> log[i].ok]

\* the calls of the ring-wrap scenario, and the scenario with four pushes
Scenario3 == <<"push", "push", "push", "pop", "pop", "push", "push">>
Scenario4 == <<"push", "push", "push", "push", "pop", "pop", "push", "push">>

\* C3 as stated: on an empty RingBuffer constructed with capacity 4 the
\* third consecutive push returns false, and after two pops two further
\* pushes both return true.
C3_ThirdPushFails ==
    ringReq = 4 =>
        /\ (Len(ringLog) >= 3 /\ SubSeq(Ops(ringLog), 1, 3) = SubSeq(Scenario3, 1, 3))
               => Oks(ringLog)[3] = FALSE
        /\ Ops(ringLog) = Scenario3
               => Oks(ringLog) = <<TRUE, TRUE, FALSE, TRUE, TRUE, TRUE, TRUE>>

\* C3 amended: on an empty RingBuffer constructed with capacity 4 (three
\* usable slots) the first three consecutive pushes return true and the
\* fourth returns false; after two pops, two further pushes both return true.
C3_FourthPushFails ==
    ringReq = 4 =>
        /\ ring.capacity_ = 4
        /\ \A n \in 1 .. 8 :
               (Len(ringLog) >= n /\ SubSeq(Ops(ringLog), 1, n) = SubSeq(Scenario4, 1, n))
                   => Oks(ringLog)[n] = (n # 4)

\* C3 witness: the whole amended scenario has run
C3_Witness == ringReq = 4 /\ Ops(ringLog) = Scenario4

(***************************************************************************)
(* Properties of the order manager.                                        *)
(***************************************************************************)
\* the submissions SubmitOrder accepted (returned true for)
Accepted == SelectSeq(omLog, LAMBDA e : e.ok)

\* no SubmitOrder call is in flight, every ring is empty and the worker
\* holds no popped order it has yet to record
Drained ==
    /\ \A t \in Threads : prod[t].pc = "idle"
    /\ \A v \in Venues : RingEmpty(order_queues_[v])
    /\ worker.pc \notin {"read", "store"}

\* C4: when several threads call SubmitOrder concurrently for the same
\* venue, every order for which SubmitOrder returned true is popped by the
\* dispatch worker exactly once: none is delivered twice, none is
\* overwritten (every popped record is a record some thread submitted), and
\* once the rings are drained none is missing.
C4_AcceptedPoppedOnce ==
    /\ \A i, j \in 1 .. Len(popLog) : i # j => popLog[i] # popLog[j]
    /\ \A i \in 1 .. Len(popLog) :
           \/ \E k \in 1 .. Len(omLog) : omLog[k].order = popLog[i]
           \/ \E t \in Threads : prod[t].pc # "idle" /\ prod[t].order = popLog[i]
    /\ Drained =>
           \A k \in 1 .. Len(Accepted) :
               \E i \in 1 .. Len(popLog) : popLog[i] = Accepted[k].order

\* the first call of the rate window that call i of the log falls into
WindowStart(i) ==
    LET resets == {j \in 1 .. i : omLog[j].reset}
    IN IF resets = {} THEN 1 ELSE CHOOSE j \in resets : \A k \in resets : k <= j

\* C5: within one rate window (single caller, rings not full) with
\* max_orders_per_second = N, the first N SubmitOrder calls return true and
\* every further call returns false and raises the rejected counter by
\* exactly one (N = 3, five calls: three true, two false, rejected = 2).
C5_RateWindow ==
    /\ \A i \in 1 .. Len(omLog) :
           omLog[i].ok <=> (i - WindowStart(i) + 1 <= config_.max_orders_per_second)
    /\ prod["T1"].pc = "idle" =>
           stats_.orders_rejected = Len(omLog) - Len(Accepted)

\* C5 witness: N = 3 and five calls in one window
C5_Witness ==
    /\ config_.max_orders_per_second = 3
    /\ Len(omLog) = 5
    /\ \A i \in 1 .. 5 : ~omLog[i].reset
    /\ Oks(omLog) = <<TRUE, TRUE, TRUE, FALSE, FALSE>>
    /\ stats_.orders_rejected = 2

\* C6: every order admitted by the dispatch worker receives an ID strictly
\* greater than every ID assigned earlier, and no ID is assigned to two
\* orders.
C6_IdsIncrease ==
    /\ \A i, j \in 1 .. Len(admitLog) : i < j => admitLog[i].id < admitLog[j].id
    /\ \A i \in 1 .. Len(admitLog) : admitLog[i].id < next_order_id_
    /\ DOMAIN orders_ = {admitLog[i].id : i \in 1 .. Len(admitLog)}

\* C6 witness: two orders admitted in a session of three Start / Stop calls
C6_Witness ==
    /\ Len(admitLog) >= 2
    /\ Len(ctlLog) = 3

\* the order as submitted under a client tag
Submitted(tag) ==
    LET k == CHOOSE k \in 1 .. Len(omLog) : omLog[k].order.client_order_id = tag
    IN omLog[k].order

\* C7: for every non-cancel order accepted by SubmitOrder, once admitted
\* GetOrder(assigned id) returns a record with the side, quantity and price
\* (and the other client fields) of the submitted order; the manager sets
\* only the ID and created_at.
C7_RoundTrip ==
    \A i \in 1 .. Len(admitLog) :
        LET rec == GetOrder(admitLog[i].id)
            tag == admitLog[i].client_order_id
        IN /\ \E k \in 1 .. Len(omLog) :
                  omLog[k].ok /\ omLog[k].order.client_order_id = tag
           /\ rec.id = admitLog[i].id
           /\ \A f \in {"client_order_id", "exchange", "side", "price", "quantity",
                        "executed_quantity"} : rec[f] = Submitted(tag)[f]
           /\ rec.status \in {Submitted(tag).status, "CANCELED"}

\* C7 witness: both payloads went through admission
C7_Witness ==
    /\ Len(admitLog) >= 2
    /\ GetOrder(1).side = "BUY" /\ GetOrder(1).price = 10 /\ GetOrder(1).quantity = 1
    /\ GetOrder(2).side = "SELL" /\ GetOrder(2).price = 20 /\ GetOrder(2).quantity = 2

\* the step of a Start / Stop call
StartStep == Len(ctlLog') = Len(ctlLog) + 1 /\ ctlLog'[Len(ctlLog')].call = "Start"
StopStep == Len(ctlLog') = Len(ctlLog) + 1 /\ ctlLog'[Len(ctlLog')].call = "Stop"

\* C8: for sequential calls, Start while running spawns no second worker,
\* Stop while stopped does nothing, at most one dispatch worker exists at
\* any time, and once Stop has returned the manager is stopped with the
\* worker joined (in particular after Stop, Start, Stop).
C8_StartStopIdempotent ==
    /\ [](/\ ~terminated
          /\ (worker.pc # "none") <=> processing_thread_.joinable
          /\ ctl = "idle" =>
                 IF running_ THEN worker.pc \notin {"none", "exited"}
                             ELSE worker.pc = "none")
    /\ [][ /\ (StartStep /\ running_) =>
                  UNCHANGED <<running_, worker, processing_thread_, ctl>>
           /\ (StopStep /\ ~running_) =>
                  UNCHANGED <<running_, worker, processing_thread_, ctl>> ]_vars

\* C8 witness: Stop, Start, Stop have returned
C8_Witness ==
    /\ [k \in 1 .. Len(ctlLog) |-> ctlLog[k].call] = <<"Stop", "Start", "Stop">>
    /\ ctl = "idle"
    /\ ~running_

(***************************************************************************)
(* Properties of the risk engine.                                          *)
(***************************************************************************)
\* the slot of the symbol of an order
SlotValue(order) == positions_[SlotOf(order.symbol)].value

\* C9: check_order returns true exactly when the engine is running and
\* price*qty <= max_order_value and |slot.value +/- price*qty| <=
\* max_position_value and daily_pnl >= -daily_loss_limit and open_orders <
\* max_open_orders; in every other case it returns false.
C9_CheckOrderExact ==
    [][ riskLast'.op = "check" =>
            LET o == riskLast'.order
                pv == o.price * o.quantity
            IN riskLast'.result <=>
                   /\ risk_running_
                   /\ pv <= risk_config_.max_order_value
                   /\ IF o.side = "BUY"
                      THEN Abs(SlotValue(o) + pv) <= risk_config_.max_position_value
                      ELSE Abs(SlotValue(o) - pv) <= risk_config_.max_position_value
                   /\ ~FLess(daily_pnl_, FInt(-risk_config_.daily_loss_limit))
                   /\ open_orders_ < risk_config_.max_open_orders ]_vars

\* C9 witness: an order accepted against a slot another symbol has filled
C9_Witness ==
    /\ riskLast.op = "check"
    /\ riskLast.result
    /\ riskLast.order.symbol = SymBB
    /\ SlotValue(riskLast.order) # 0

\* C10: a check_order call rejected by any gate changes no position slot,
\* not daily_pnl and not the open-order count.
C10_RejectionNoMutation ==
    [][ (riskLast'.op = "check" /\ ~riskLast'.result) =>
            UNCHANGED <<positions_, daily_pnl_, open_orders_>> ]_vars

\* C10 witness: a running engine rejected an order at the open-order gate
C10_Witness ==
    /\ riskLast.op = "check"
    /\ ~riskLast.result
    /\ risk_running_
    /\ open_orders_ >= risk_config_.max_open_orders
    /\ riskLast.order.price * riskLast.order.quantity <= risk_config_.max_order_value

\* C11: update_position adds realized PnL to daily_pnl only when
\* old_qty * qty_delta < 0, and then exactly min(|old_qty|, |qty_delta|) *
\* (fill - avg) for a long position or min(|old_qty|, |qty_delta|) *
\* (avg - fill) for a short one, with the average price held before the
\* update; on a fresh engine update_position(X, +1, 100) followed by
\* update_position(X, -1, 110) raises daily_pnl by 10.
C11_RealizedPnL ==
    [][ riskLast'.op = "fill" =>
            LET f == riskLast'
                pos == positions_[SlotOf(f.symbol)]
                overlap == FInt(Min(Abs(pos.quantity), Abs(f.quantity)))
                fill == FInt(f.price)
            IN /\ daily_pnl_' =
                      IF pos.quantity * f.quantity < 0
                      THEN IF pos.quantity > 0
                           THEN FAdd(daily_pnl_, FMul(overlap, FSub(fill, pos.avg_price)))
                           ELSE FAdd(daily_pnl_, FMul(overlap, FSub(pos.avg_price, fill)))
                      ELSE daily_pnl_
               /\ ( /\ riskFills = 1
                    /\ riskLast = [op |-> "fill", symbol |-> SymX, quantity |-> 1, price |-> 100]
                    /\ f = [op |-> "fill", symbol |-> SymX, quantity |-> -1, price |-> 110] )
                  => daily_pnl_' = FAdd(daily_pnl_, FInt(10)) ]_vars

\* C11 witness: the two fills of the scenario, the only fills so far, have
\* closed the position with a gain of 10
C11_Witness ==
    /\ riskFills = 2
    /\ riskLast = [op |-> "fill", symbol |-> SymX, quantity |-> -1, price |-> 110]
    /\ positions_[SlotOf(SymX)].quantity = 0
    /\ daily_pnl_ = FInt(10)

(***************************************************************************)
(* Properties of the open-order counter.                                   *)
(***************************************************************************)
\* the sum of the deltas of a log
RECURSIVE SumDeltas(_)
SumDeltas(log) == IF log = << >> THEN 0 ELSE log[1].delta + SumDeltas(Tail(log))

\* every -1 applied so far had an earlier +1 of its own: no prefix of the
\* log sums below zero
Paired(log) == \A k \in 1 .. Len(log) : SumDeltas(SubSeq(log, 1, k)) >= 0

\* C18: open_orders_ equals the sum of the deltas of all updateOrderCount
\* calls applied since construction, whatever the interleaving of the
\* callers, and it is not negative when every -1 follows its matching +1.
C18_CounterIsSum ==
    /\ open_orders_ = SumDeltas(countLog)
    /\ Paired(countLog) => open_orders_ >= 0

\* C18 witness: both threads were inside updateOrderCount at once and four
\* paired calls have been applied
C18_Witness ==
    /\ Len(countLog) = 4
    /\ countLog[1].thread # countLog[2].thread
    /\ countLog[1].delta = 1 /\ countLog[2].delta = 1
    /\ countLog[3].delta = -1 /\ countLog[4].delta = -1
    /\ open_orders_ = 0

(***************************************************************************)
(* Properties of UpdateOrder.                                              *)
(***************************************************************************)
\* a SubmitOrder / CancelOrder call returned, an UpdateOrder call returned
SubmitReturned == Len(omLog') = Len(omLog) + 1
UpdateReturned == Len(updLog') = Len(updLog) + 1

\* C15: every SubmitOrder or CancelOrder that returns false and every
\* UpdateOrder that returns false raises orders_rejected by exactly one, and
\* a call that returns true leaves the counter as it was.
C15_FailuresCounted ==
    [][ /\ SubmitReturned =>
               stats_'.orders_rejected =
                   stats_.orders_rejected + (IF omLog'[Len(omLog')].ok THEN 0 ELSE 1)
        /\ UpdateReturned =>
               stats_'.orders_rejected =
                   stats_.orders_rejected + (IF updLog'[Len(updLog')].ok THEN 0 ELSE 1) ]_vars

TerminalStatus == {"FILLED", "CANCELED", "REJECTED", "EXPIRED"}

\* C16: once an indexed order's status is Filled, Canceled, Rejected or
\* Expired no step makes it non-terminal again, and no step removes an
\* order from the index.
C16_TerminalStays ==
    [][ \A id \in DOMAIN orders_ :
            /\ id \in DOMAIN orders_'
            /\ orders_[id].status \in TerminalStatus
                   => orders_'[id].status \in TerminalStatus ]_vars

\* C17: every record in the order index has executed_quantity <= quantity.
C17_ExecutedWithinQuantity ==
    \A id \in DOMAIN orders_ : orders_[id].executed_quantity <= orders_[id].quantity

(***************************************************************************)
(* Properties of the arbitrage detector.                                   *)
(***************************************************************************)
\* the opportunities queued in the outbound ring, oldest first
RECURSIVE QueuedFrom(_, _)
QueuedFrom(r, i) ==
    IF i = r.head THEN << >> ELSE <<r.buffer_[i]>> \o QueuedFrom(r, NextIndex(r, i))

QueuedOpportunities == QueuedFrom(opportunity_buffer_, opportunity_buffer_.tail)

\* the opportunity meets both minimums of the configuration
MeetsMinimums(o) ==
    /\ FLeq(arb_config_.min_profit_amount, o.net_profit)
    /\ FLeq(arb_config_.min_profit_rate, o.profit_rate)

\* C12: every opportunity emitted by a detection pass (pushed by the pass,
\* queued in the ring, handed out by getNextOpportunity) has net_profit >=
\* min_profit_amount and profit_rate >= min_profit_rate, and a (buy, sell)
\* feed pair with sell.bid - buy.ask <= 0 emits no opportunity.
C12_EmittedProfitable ==
    /\ [](\A k \in 1 .. Len(QueuedOpportunities) : MeetsMinimums(QueuedOpportunities[k]))
    /\ [][ /\ arbLast'.op = "get" => MeetsMinimums(arbLast'.opportunity)
           /\ arbLast'.op = "detect" =>
                  /\ \A k \in 1 .. Len(arbLast'.emitted) : MeetsMinimums(arbLast'.emitted[k])
                  /\ \A s \in DOMAIN symbol_prices_ :
                         \A i, j \in DOMAIN symbol_prices_[s].feeds :
                             LET buy == symbol_prices_[s].feeds[i]
                                 sell == symbol_prices_[s].feeds[j]
                             IN FLeq(FSub(sell.bid_price, buy.ask_price), FInt(0)) =>
                                    \A k \in 1 .. Len(arbLast'.emitted) :
                                        LET o == arbLast'.emitted[k]
                                        IN ~( /\ o.symbol = symbol_prices_[s].symbol
                                              /\ o.buy_exchange = buy.exchange
                                              /\ o.sell_exchange = sell.exchange ) ]_vars

\* C12 witness: a pass over two fresh feeds emitted the profitable direction
\* and not the reverse one
C12_Witness ==
    /\ arbLast.op = "detect"
    /\ Len(arbLast.emitted) = 1
    /\ symbol_count_ >= 1
    /\ symbol_prices_[0].exchange_count = 2
    /\ FLess(FInt(0), arbLast.emitted[1].net_profit)

\* the feeds of the scenario: one symbol, venue A asking 100 for 1 and venue
\* B bidding 100.5 for 1, neither older than a second
ScenarioFeeds ==
    /\ symbol_count_ = 1
    /\ symbol_prices_[0].exchange_count = 2
    /\ \E a, b \in DOMAIN symbol_prices_[0].feeds :
           LET fa == symbol_prices_[0].feeds[a]
               fb == symbol_prices_[0].feeds[b]
           IN /\ fa.exchange = VenueA /\ fa.ask_price = FInt(100) /\ fa.ask_quantity = FInt(1)
              /\ fb.exchange = VenueB /\ fb.bid_price = Frac(201, 2) /\ fb.bid_quantity = FInt(1)
              /\ ~Stale(fa, arbNow) /\ ~Stale(fb, arbNow)

\* C13: with fresh feeds for one symbol where venue A has ask 100.0 /
\* ask_qty 1 and venue B has bid 100.5 / bid_qty 1 (each book uncrossed),
\* taker fees 0.001 on both, min_profit_rate 0.001, min_profit_amount 0.1
\* and max_position_size 1000, one detection pass on a running detector
\* whose ring has room emits exactly one opportunity, with buy venue A, sell
\* venue B and net_profit 0.2995.
C13_ScenarioOneOpportunity ==
    [][ ( /\ arbLast'.op = "detect" /\ arbLast'.running
          /\ arb_config_ = ScenarioArbConfig
          /\ ScenarioFeeds
          /\ RingSize(opportunity_buffer_) < opportunity_buffer_.capacity_ - 1 )
        => /\ Len(arbLast'.emitted) = 1
           /\ arbLast'.emitted[1].buy_exchange = VenueA
           /\ arbLast'.emitted[1].sell_exchange = VenueB
           /\ arbLast'.emitted[1].net_profit = Frac(599, 2000)
           /\ detected_count_' = detected_count_ + 1 ]_vars

\* C13 witness: the pass of the scenario has run
C13_Witness ==
    /\ arbLast.op = "detect" /\ arbLast.running
    /\ arb_config_ = ScenarioArbConfig
    /\ ScenarioFeeds
    /\ Len(arbLast.emitted) = 1
    /\ arbLast.emitted[1].net_profit = Frac(599, 2000)

(***************************************************************************)
(* Properties of the market maker.                                         *)
(***************************************************************************)
\* |price - mid| of a quote
Deviation(q, mid) == FAbs(FSub(q.price, mid))

\* C14: in a batch generated at position 0 (no inventory skew), every
\* emitted Buy quote has price <= mid, every emitted Sell quote has
\* price >= mid, and on each side |price - mid| is non-decreasing in the
\* level.
C14_QuotesAroundMid ==
    [][ ( /\ mmLast'.op = "generate" /\ mmLast'.ran
          /\ mmLast'.inventory.position = FInt(0) )
        => LET mid == mmLast'.market.mid_price
               qs == mmLast'.emitted
           IN /\ \A k \in 1 .. Len(qs) :
                     /\ qs[k].side = "BUY" => FLeq(qs[k].price, mid)
                     /\ qs[k].side = "SELL" => FLeq(mid, qs[k].price)
              /\ \A j, k \in 1 .. Len(qs) :
                     (qs[j].side = qs[k].side /\ qs[j].level <= qs[k].level)
                         => FLeq(Deviation(qs[j], mid), Deviation(qs[k], mid)) ]_vars

\* C14 witness: a batch of three levels was emitted at position 0, the
\* deeper levels further from mid
C14_Witness ==
    /\ mmLast.op = "generate" /\ mmLast.ran
    /\ mmLast.inventory.position = FInt(0)
    /\ Len(mmLast.emitted) = 6
    /\ mmLast.emitted[5].side = "BUY" /\ mmLast.emitted[5].level = 2
    /\ FLess(mmLast.emitted[5].price, mmLast.emitted[1].price)
    /\ FLess(mmLast.emitted[2].price, mmLast.emitted[6].price)

\* ---------------------------------------------------------------------
\* Properties of the admission order
\* ---------------------------------------------------------------------

\* the new orders SubmitOrder accepted, in the order of the calls
AcceptedNew == SelectSeq(omLog, LAMBDA e : e.ok /\ e.order.status # "CANCELED")

\* the new orders the dispatch worker popped, in the order of the pops
PoppedNew == SelectSeq(popLog, LAMBDA o : o.status # "CANCELED")

\* the position at which the order of a call was admitted, 0 when it was not
AdmitPos(tag) ==
    IF \E k \in 1 .. Len(admitLog) : admitLog[k].client_order_id = tag
    THEN CHOOSE k \in 1 .. Len(admitLog) : admitLog[k].client_order_id = tag
    ELSE 0

\* C20: of two new orders one producer had accepted for the same venue, the
\* one submitted first is admitted first and receives the smaller ID; the
\* IDs are handed out in the order in which the dispatch worker pops new
\* orders, counting up from the first ID.
C20_VenueFifo ==
    /\ \A i, j \in 1 .. Len(AcceptedNew) :
           LET first  == AcceptedNew[i].order
               second == AcceptedNew[j].order
           IN (i < j /\ first.exchange = second.exchange
                    /\ AdmitPos(second.client_order_id) # 0)
              => /\ AdmitPos(first.client_order_id) # 0
                 /\ AdmitPos(first.client_order_id) < AdmitPos(second.client_order_id)
                 /\ admitLog[AdmitPos(first.client_order_id)].id
                       < admitLog[AdmitPos(second.client_order_id)].id
    /\ Len(admitLog) <= Len(PoppedNew)
    /\ \A k \in 1 .. Len(admitLog) :
           /\ admitLog[k].client_order_id = PoppedNew[k].client_order_id
           /\ admitLog[k].id = FirstOrderId + (k - 1)

\* a futures order accepted first, then two spot orders, all three admitted:
\* the spot orders keep their order, and the first of them overtakes the
\* futures order, which the worker reaches later in its pass
C20_Witness ==
    /\ Len(AcceptedNew) = 3
    /\ AcceptedNew[1].order.exchange = "BINANCE_FUTURES"
    /\ AcceptedNew[2].order.exchange = "BINANCE_SPOT"
    /\ AcceptedNew[3].order.exchange = "BINANCE_SPOT"
    /\ Len(admitLog) = 3
    /\ AdmitPos(AcceptedNew[2].order.client_order_id) < AdmitPos(AcceptedNew[1].order.client_order_id)
    /\ AdmitPos(AcceptedNew[2].order.client_order_id) < AdmitPos(AcceptedNew[3].order.client_order_id)

\* ---------------------------------------------------------------------
\* Properties of the dispatch loop
\* ---------------------------------------------------------------------

\* SubmitOrder has returned true for the new order of call number tag
AcceptedTag(tag) ==
    \E k \in 1 .. Len(AcceptedNew) : AcceptedNew[k].order.client_order_id = tag

\* the order of call number tag was popped and ProcessOrder has stored it
ProcessedTag(tag) ==
    /\ \E k \in 1 .. Len(PoppedNew) : PoppedNew[k].client_order_id = tag
    /\ AdmitPos(tag) # 0
    /\ stats_.orders_processed >= AdmitPos(tag)

\* a step of the worker that pops an order
PopStep == Len(popLog') = Len(popLog) + 1

Stopped == ctl = "idle" /\ ~running_

\* the step with which Stop returns from join()
StopReturns == ctl = "join" /\ ctl' = "idle"

\* C22: Stop returns only after the dispatch worker has exited; every
\* order popped by then has been processed; after Stop has returned the
\* order index and the processed counter do not change, and the orders
\* still queued in the venue rings stay there.
C22_StopDrainsWorker ==
    /\ [](Stopped => /\ worker.pc = "none"
                      /\ stats_.orders_processed = Len(popLog))
    /\ [][ StopReturns => /\ worker.pc = "exited"
                           /\ stats_.orders_processed = Len(popLog) ]_vars
    /\ [][ (Stopped /\ ~running_') =>
               /\ orders_' = orders_
               /\ stats_'.orders_processed = stats_.orders_processed
               /\ \A v \in Venues : order_queues_'[v].tail = order_queues_[v].tail ]_vars

\* C22 witness: Stop has returned after one order was processed, and another
\* accepted order waits in its ring
C22_Witness ==
    /\ Stopped
    /\ Len(ctlLog) > 0
    /\ ctlLog[Len(ctlLog)] = [call |-> "Stop", was_running |-> TRUE]
    /\ stats_.orders_processed = 1
    /\ \E v \in Venues : ~RingEmpty(order_queues_[v])

\* ---------------------------------------------------------------------
\* Properties of cancellation
\* ---------------------------------------------------------------------

\* the step in which the worker processes the cancellation it popped
CancelStep ==
    /\ worker.pc = "process"
    /\ worker.order.status = "CANCELED"
    /\ stats_'.orders_processed = stats_.orders_processed + 1

\* the cancellation the worker holds names an indexed order of its venue
CancelHits ==
    /\ worker.order.id \in DOMAIN orders_
    /\ orders_[worker.order.id].exchange = worker.order.exchange

\* C23: processing a cancellation for (id, venue) sets the stored order's
\* status to Canceled exactly when id is in the index and the stored venue
\* equals venue; otherwise the index is left unchanged; a cancellation
\* assigns no new ID and adds no index entry.
C23_CancellationExact ==
    [][ CancelStep =>
            /\ next_order_id_' = next_order_id_
            /\ DOMAIN orders_' = DOMAIN orders_
            /\ exchange_orders_' = exchange_orders_
            /\ admitLog' = admitLog
            /\ IF CancelHits
               THEN /\ orders_'[worker.order.id].status = "CANCELED"
                    /\ \A id \in DOMAIN orders_ \ {worker.order.id} :
                           orders_'[id] = orders_[id]
                    /\ [orders_'[worker.order.id] EXCEPT
                            !.status = orders_[worker.order.id].status,
                            !.updated_at = orders_[worker.order.id].updated_at]
                         = orders_[worker.order.id]
               ELSE orders_' = orders_ ]_vars

\* C23 witness: the cancellation of an admitted order on its own venue has
\* been processed
C23_Witness ==
    /\ \E k \in 1 .. Len(popLog) :
           /\ popLog[k].status = "CANCELED"
           /\ popLog[k].id = FirstOrderId
           /\ popLog[k].exchange = "BINANCE_SPOT"
    /\ FirstOrderId \in DOMAIN orders_
    /\ orders_[FirstOrderId].exchange = "BINANCE_SPOT"
    /\ orders_[FirstOrderId].status = "CANCELED"
    /\ stats_.orders_processed = 2

\* ---------------------------------------------------------------------
\* Properties of the average price
\* ---------------------------------------------------------------------

\* C24: update_position leaves avg_price as the weighted average
\* (old*avg + delta*fill)/new when the fill adds to the position, as the
\* fill price when the position opens from zero or crosses through zero,
\* and unchanged when the new quantity is zero.
C24_AvgPriceCases ==
    [][ riskLast'.op = "fill" =>
            LET sl       == SlotOf(riskLast'.symbol)
                old      == positions_[sl]
                new      == positions_'[sl]
                delta    == riskLast'.quantity
                fill     == riskLast'.price
            IN /\ new.quantity = old.quantity + delta
               /\ old.quantity * delta > 0 =>
                      FMul(new.avg_price, FInt(new.quantity))
                        = FAdd(FMul(FInt(old.quantity), old.avg_price), FInt(delta * fill))
               /\ (new.quantity # 0 /\ (old.quantity = 0 \/ old.quantity * new.quantity < 0)) =>
                      new.avg_price = FInt(fill)
               /\ new.quantity = 0 => new.avg_price = old.avg_price ]_vars

\* C24 witness: two units bought at 4 and two more at 6 average 5
C24_Witness ==
    /\ riskLast.op = "fill"
    /\ riskLast.quantity = 2
    /\ riskLast.price = 6
    /\ positions_[SlotOf(riskLast.symbol)].quantity = 4
    /\ positions_[SlotOf(riskLast.symbol)].avg_price = FInt(5)

\* ---------------------------------------------------------------------
\* Properties of the staleness test
\* ---------------------------------------------------------------------

\* the feed is not older than one second at the time the pass read
NotOlder(feed, current_time) == current_time - feed.timestamp_ns <= StaleAge

\* the pass that just ended evaluated the pair of feeds
Evaluated(checks, feed_i, feed_j) ==
    \E k \in 1 .. Len(checks) : checks[k].buy = feed_i /\ checks[k].sell = feed_j

\* a detection pass of a running detector ends with this step
PassEnds == arbDet.pc = "loop" /\ arbDet'.pc = "idle"

\* C25: a detection pass evaluates a venue pair exactly when neither feed
\* is older than one second at the time read at the start of the pass, also
\* for a feed stamped by an update after that time was read.
C25_FreshPairsEvaluated ==
    [][ PassEnds =>
            \A sym_idx \in 0 .. (symbol_count_ - 1) :
                LET sym_prices == symbol_prices_[sym_idx] IN
                \A i, j \in 0 .. (sym_prices.exchange_count - 1) :
                    i < j =>
                        (Evaluated(arbLast'.checks, sym_prices.feeds[i], sym_prices.feeds[j])
                           <=> /\ NotOlder(sym_prices.feeds[i], arbDet.current_time)
                               /\ NotOlder(sym_prices.feeds[j], arbDet.current_time)) ]_vars

\* ---------------------------------------------------------------------
\* Properties of concurrent feed updates
\* ---------------------------------------------------------------------

\* no thread is inside updatePriceFeed
NoUpdateUnderWay == \A t \in Threads : arbUpd[t].pc = "idle"

\* the update is found where a lookup of its symbol and venue leads
FeedRecorded(u) ==
    /\ u.symbol \in DOMAIN symbol_index_
    /\ LET sym_prices == CountedFeeds(symbol_prices_[symbol_index_[u.symbol]])
           slot == FindExchange(sym_prices, u.exchange)
       IN /\ slot # -1
          /\ sym_prices.feeds[slot].bid_price = u.quote.bid_price
          /\ sym_prices.feeds[slot].ask_price = u.quote.ask_price

\* every slot below exchange_count was written
NoEmptyCountedSlot ==
    \A sym_idx \in DOMAIN symbol_prices_ :
        \A i \in 0 .. (symbol_prices_[sym_idx].exchange_count - 1) :
            /\ i \in DOMAIN symbol_prices_[sym_idx].feeds
            /\ symbol_prices_[sym_idx].feeds[i].exchange # << >>

\* no symbol name stands at two indices
OneIndexPerSymbol ==
    \A i, j \in DOMAIN symbol_prices_ :
        i # j => symbol_prices_[i].symbol # symbol_prices_[j].symbol

\* the two threads have updated distinct (symbol, venue) pairs only
DistinctPairs ==
    \A u1 \in arbUpd["T1"].done, u2 \in arbUpd["T2"].done :
        u1.symbol # u2.symbol \/ u1.exchange # u2.exchange

\* C26: update_price_feed calls running concurrently for distinct (symbol,
\* venue) pairs each end up recorded in their own slot: no update overwrites
\* another, no counted slot is left empty and no symbol obtains two indices.
C26_ConcurrentUpdatesRecorded ==
    (NoUpdateUnderWay /\ DistinctPairs) =>
        /\ \A t \in Threads : \A u \in arbUpd[t].done : FeedRecorded(u)
        /\ NoEmptyCountedSlot
        /\ OneIndexPerSymbol

\* ---------------------------------------------------------------------
\* Properties of the snapshots of a batch
\* ---------------------------------------------------------------------

\* the quoting thread ends a batch with this step
BatchEnds == mmGen.pc = "level" /\ mmGen'.pc = "idle"

\* C27: generate_quotes computes a batch from one coherent market snapshot
\* and one coherent inventory snapshot: the market fields it uses were all
\* written by one update, and all quotes of the batch use the same
\* inventory position.
C27_CoherentSnapshots ==
    [][ BatchEnds =>
            /\ mmGen.market \in mmUpd.written
            /\ \A i \in 1 .. Len(mmGen.positions) :
                   mmGen.positions[i] = mmGen.inventory.position ]_vars

\* ---------------------------------------------------------------------
\* Properties of the quote counter
\* ---------------------------------------------------------------------

\* a call of generateQuotes returns with this step
GenerateReturns == mmCalls' = mmCalls + 1 /\ mmLast'.op = "generate"

\* C28: quotes_generated increases by one exactly for each quote pushed onto
\* the outbound ring with success: a call of generate_quotes raises it by
\* the number of quotes the ring took, a quote dropped because the ring is
\* full is not counted, and no other call changes it.
C28_CountsSuccessfulPushes ==
    [][ /\ GenerateReturns =>
              /\ quotes_generated_' = quotes_generated_ + Len(mmLast'.emitted)
              /\ RingSize(quote_buffer_') = RingSize(quote_buffer_) + Len(mmLast'.emitted)
        /\ ~GenerateReturns => quotes_generated_' = quotes_generated_ ]_vars

\* ---------------------------------------------------------------------
\* Properties of a full table
\* ---------------------------------------------------------------------

\* the venue is not among the counted slots of the symbol
NewVenue(sym_prices, exchange) == FindExchange(CountedFeeds(sym_prices), exchange) = -1

\* the table has no room for the update: the symbol is new and MAX_SYMBOLS
\* symbols are held, or the venue is new and the symbol holds MAX_EXCHANGES
NoRoom(table, exchange, symbol) ==
    IF symbol \notin DOMAIN table.index
    THEN table.count >= ARB_MAX_SYMBOLS
    ELSE /\ NewVenue(table.prices[table.index[symbol]], exchange)
         /\ table.prices[table.index[symbol]].exchange_count >= MAX_EXCHANGES

\* the noted call of the thread has returned
Returned(t) == arbUpd[t].pc = "idle" /\ arbUpd[t].calls > 0

\* C29: when the table holds MAX_SYMBOLS symbols and the update names a new
\* symbol, or the symbol holds MAX_EXCHANGES venues and the update names a
\* new venue, update_price_feed drops the update: the symbol index, every
\* stored feed, symbol_count, every exchange_count and processed_prices are
\* after the call what they were before it.
C29_FullTableDrops ==
    (Returned("T1") /\ NoRoom(arbBefore, arbUpd["T1"].exchange, arbUpd["T1"].symbol))
        => Table = arbBefore

C29_Witness ==
    /\ Returned("T1")
    /\ arbUpd["T1"].calls = 2
    /\ arbUpd["T1"].symbol \notin DOMAIN arbBefore.index
    /\ NoRoom(arbBefore, arbUpd["T1"].exchange, arbUpd["T1"].symbol)
    /\ Table = arbBefore

\* the same for a venue that found its symbol's slots used up
VenueDropped ==
    /\ Returned("T1")
    /\ arbUpd["T1"].symbol \in DOMAIN arbBefore.index
    /\ NoRoom(arbBefore, arbUpd["T1"].exchange, arbUpd["T1"].symbol)
    /\ Table = arbBefore

\* ---------------------------------------------------------------------
\* Properties of the venue slots
\* ---------------------------------------------------------------------

\* the venue names the thread's finished calls gave for the symbol
VenuesSeen(t, symbol) == { u.exchange : u \in { v \in arbUpd[t].done : v.symbol = symbol } }

\* C30: after any sequence of update_price_feed calls from one thread, each
\* symbol holds at most one slot per venue name and its exchange_count is
\* the number of distinct venue names seen for it (capped at
\* MAX_EXCHANGES), for venue names of any length: an update for a venue
\* recorded before overwrites its slot and never appends. Stated for the
\* symbols the thread's calls have recorded.
C30_OneSlotPerVenue ==
    arbUpd["T1"].pc = "idle" =>
        \A symbol \in { u.symbol : u \in arbUpd["T1"].done } :
            LET sym_prices == symbol_prices_[symbol_index_[symbol]]
            IN /\ sym_prices.exchange_count =
                      Min(Cardinality(VenuesSeen("T1", symbol)), MAX_EXCHANGES)
               /\ \A i, j \in 0 .. (sym_prices.exchange_count - 1) :
                      i # j => sym_prices.feeds[i].exchange # sym_prices.feeds[j].exchange

\* ---------------------------------------------------------------------
\* Properties of the batch
\* ---------------------------------------------------------------------

\* a call of generateQuotes that got past its tests has just returned
BatchDone == mmLast.op = "generate" /\ mmLast.ran /\ mmGen.pc = "idle"

\* the quotes of the batch, as the push loop offers them to the ring
Batch == [k \in 1 .. active_quotes_ |-> current_quotes_[k]]

RECURSIVE LossRun(_)
LossRun(log) ==
    IF log = << >> \/ ~FLess(log[Len(log)], FInt(0)) THEN 0
    ELSE 1 + LossRun(SubSeq(log, 1, Len(log) - 1))

\* C32: once ten consecutive losing fills have been recorded through
\* update_pnl, should_stop returns true; a fill with non-negative PnL resets
\* the run of consecutive losses to zero.
C32_TenLossesStop ==
    /\ (rcLast.op = "stop" /\ LossRun(rcLog) >= 10) => rcLast.result
    /\ (rcLog # << >> /\ ~FLess(rcLog[Len(rcLog)], FInt(0))) => consecutive_losses_ = 0

\* ---------------------------------------------------------------------
\* Properties of the order index
\* ---------------------------------------------------------------------

\* the places (venue, position) at which the per-venue lists hold the ID
ListedAt(id) ==
    { <<v, k>> \in Venues \X (1 .. Cardinality(DOMAIN orders_)) :
          k <= Len(exchange_orders_[v]) /\ exchange_orders_[v][k] = id }

\* C33: in every reachable state the order index is consistent: the IDs in
\* the per-venue lists are exactly the keys of orders_, each ID stands in
\* exactly one venue list exactly once, and the record stored under an ID
\* listed for venue v has that ID and venue v.
C33_IndexConsistent ==
    /\ \A v \in Venues : Len(exchange_orders_[v]) <= Cardinality(DOMAIN orders_)
    /\ \A v \in Venues : \A k \in 1 .. Len(exchange_orders_[v]) :
           exchange_orders_[v][k] \in DOMAIN orders_
    /\ \A id \in DOMAIN orders_ : Cardinality(ListedAt(id)) = 1
    /\ \A v \in Venues : \A k \in 1 .. Len(exchange_orders_[v]) :
           /\ orders_[exchange_orders_[v][k]].id = exchange_orders_[v][k]
           /\ orders_[exchange_orders_[v][k]].exchange = v

\* ---------------------------------------------------------------------
\* Properties of the counters
\* ---------------------------------------------------------------------

\* no SubmitOrder call is under way and the worker is not between the pop
\* of an order and the count of it
NothingInFlight ==
    /\ \A t \in Threads : prod[t].pc = "idle"
    /\ worker.pc \in {"none", "while", "for", "exited"}

\* the orders still queued in the venue rings
RECURSIVE QueuedIn(_)
QueuedIn(venues) ==
    IF venues = {} THEN 0
    ELSE LET v == CHOOSE x \in venues : TRUE
         IN RingSize(order_queues_[v]) + QueuedIn(venues \ {v})

\* the orders popped that were not cancellations
PoppedNonCancel == Cardinality({k \in 1 .. Len(popLog) : popLog[k].status # "CANCELED"})

\* C34: with one producer per venue, whenever no SubmitOrder call and no
\* dispatch step is in flight, the number of SubmitOrder and CancelOrder
\* calls made equals rejected + processed + the number of orders still
\* queued in the venue rings, and the number of index entries equals the
\* number of processed orders that were not cancellations.
C34_CallsAccounted ==
    NothingInFlight =>
        /\ Len(omLog) = stats_.orders_rejected + stats_.orders_processed + QueuedIn(Venues)
        /\ Cardinality(DOMAIN orders_) = PoppedNonCancel
        /\ stats_.orders_processed = Len(popLog)

C34_Witness ==
    /\ NothingInFlight
    /\ stats_.orders_rejected > 0
    /\ stats_.orders_processed > 0
    /\ Cardinality(DOMAIN orders_) > 0

\* ---------------------------------------------------------------------
\* Properties of the rate gate under concurrent callers
\* ---------------------------------------------------------------------

\* the thread resets the window with this step (orders_this_second_.store(0))
ResetStep(t) == prod[t].pc = "reset" /\ prod'[t].pc = "stamp"

\* the thread passes the rate gate with this step
GatePass(t) == prod[t].pc = "gate" /\ prod'[t].pc = "push"

\* C35: with SubmitOrder called from several threads at once, between two
\* consecutive resets of the rate window at most max_orders_per_second
\* calls pass the rate gate, and the window is reset at most once per
\* elapsed second: a reset is made only when a second has passed since the
\* reset recorded last.
C35_ConcurrentRateWindow ==
    [][ \A t \in Threads :
            /\ GatePass(t) => orders_this_second_' <= config_.max_orders_per_second
            /\ ResetStep(t) => WindowElapsed(prod[t].now, last_rate_check_) ]_vars

\* ---------------------------------------------------------------------
\* Properties of the symbol count
\* ---------------------------------------------------------------------

\* C36: symbol_count never exceeds MAX_SYMBOLS in any state another thread
\* can observe, so a detection pass running at the same time as
\* update_price_feed never indexes the symbol table at MAX_SYMBOLS or
\* beyond.
C36_SymbolCountBounded ==
    /\ symbol_count_ <= ARB_MAX_SYMBOLS
    /\ arbDet.pc = "loop" => arbDet.sym_count <= ARB_MAX_SYMBOLS
    /\ (arbLast.op = "detect" /\ arbLast.running) => arbLast.sym_count <= ARB_MAX_SYMBOLS

\* ---------------------------------------------------------------------
\* Properties of daily_pnl_ under concurrent fills
\* ---------------------------------------------------------------------

\* the sum of the realized PnL of the calls recorded
RECURSIVE SumRealized(_)
SumRealized(log) ==
    IF log = << >> THEN FInt(0)
    ELSE FAdd(SumRealized(SubSeq(log, 1, Len(log) - 1)), log[Len(log)].realized_pnl)

\* C37: when update_position is called concurrently from several threads
\* for different symbols, daily_pnl ends equal to its initial value plus
\* the realized PnL of every call: no contribution is lost.
C37_NoContributionLost ==
    (\A t \in Threads : filling[t].pc = "idle") => daily_pnl_ = SumRealized(fillLog)

\* ---------------------------------------------------------------------
\* Properties of round trips
\* ---------------------------------------------------------------------

\* the net cash flow of the fills recorded: minus the sum of
\* qty_delta * fill_price
RECURSIVE CashFlow(_)
CashFlow(log) ==
    IF log = << >> THEN 0
    ELSE CashFlow(SubSeq(log, 1, Len(log) - 1)) - log[Len(log)].quantity * log[Len(log)].price

\* C38: for a single-threaded sequence of update_position fills on one
\* symbol that starts and ends with quantity zero, the total amount added
\* to daily_pnl equals the net cash flow of those fills, partial
\* reductions included.
C38_RoundTripCashFlow ==
    (filling["T1"].pc = "idle" /\ positions_[SlotOf(SymX)].quantity = 0)
        => daily_pnl_ = FInt(CashFlow(fillLog))

\* ---------------------------------------------------------------------
\* Properties of the prices of a batch
\* ---------------------------------------------------------------------

\* the inventory and the skew are within the limits of the configuration
WithinInventory ==
    /\ FLeq(FAbs(inventory_state_.position), mm_config_.max_inventory)
    /\ FLeq(FInt(0), mm_config_.inventory_skew)
    /\ FLeq(mm_config_.inventory_skew, FInt(1))

\* C39: in every batch emitted by generate_quotes, the Buy quote's price
\* is strictly below the Sell quote's price at each level, for every
\* inventory position with |position| <= max_inventory and inventory_skew
\* in [0, 1].
C39_BuyBelowSell ==
    (BatchDone /\ WithinInventory) =>
        \A i, j \in 1 .. active_quotes_ :
            (/\ Batch[i].side = "BUY"
             /\ Batch[j].side = "SELL"
             /\ Batch[i].level = Batch[j].level) => FLess(Batch[i].price, Batch[j].price)

\* ---------------------------------------------------------------------
\* Properties of size() under concurrent push and pop
\* ---------------------------------------------------------------------

\* C40: a RingBuffer size() call running concurrently with the producer
\* and the consumer returns a value equal to the actual number of queued
\* items at some instant during the call.
C40_SizeWasActual ==
    obsLast.op = "size" => obsLast.result \in obsLast.during

====
